---- MODULE Spec2Model ----
(***************************************************************************)
(* Model of the rustup manifest ingestor (rustup_manifest_ingestor.py and  *)
(* helpers/sqlite.py): the manifest filter, the diff planner, the manifest *)
(* parser and one run of main() against the SQLite store.                  *)
(*                                                                         *)
(* Strings are TLA+ strings; the substring and regular-expression tests of *)
(* the source are computed character by character with Len and SubSeq.     *)
(***************************************************************************)
EXTENDS Integers, Sequences, FiniteSets, TLC

VARIABLES
    pc,                  \* position of main(): "idle", "parse", "prepare", ...
    runs,                \* number of runs of main() finished so far
    published,           \* upstream: how many lines manifests.txt holds
    rev,                 \* upstream: revision of the in-place nightly pointer
    dbExists,            \* os.path.exists(db_path)
    db,                  \* committed content of the SQLite file
    conn,                \* content seen by the open connection (transaction)
    is_new_db, force_update, number,
    all_manifest_paths, filtered_paths, stable_path, beta_path, nightly_path,
    manifests_to_parse,  \* the parse batch
    results,             \* executor.map results, Pending until parsed
    unique_versions_to_insert,
    next_insert,         \* index of the insertion loop
    response,            \* decoded body of the manifest a parse_manifest call fetched
    hist                 \* history of the run, read by the properties only

vars == <<pc, runs, published, rev, dbExists, db, conn, is_new_db, force_update,
          number, all_manifest_paths, filtered_paths, stable_path, beta_path,
          nightly_path, manifests_to_parse, results, unique_versions_to_insert,
          next_insert, response, hist>>

\* Python's None where a string is expected
None == "None"

\* Python's None where a RustVersion is expected
NoRelease == [none |-> TRUE]

\* the result of a manifest the pool has not parsed yet
Pending == [pending |-> TRUE]

\* the closed connection
Closed == [closed |-> TRUE]

\* the body of a manifest that is no TOML
NotToml == [toml_error |-> TRUE]

----------------------------------------------------------------------------
(* Strings                                                                 *)

Digits == {"0", "1", "2", "3", "4", "5", "6", "7", "8", "9"}

Letters == {"a", "b", "c", "d", "e", "f", "g", "h", "i", "j", "k", "l", "m",
            "n", "o", "p", "q", "r", "s", "t", "u", "v", "w", "x", "y", "z",
            "A", "B", "C", "D", "E", "F", "G", "H", "I", "J", "K", "L", "M",
            "N", "O", "P", "Q", "R", "S", "T", "U", "V", "W", "X", "Y", "Z"}

\* the character class [\d\w.-] of the two version patterns
VersionChars == Digits \cup Letters \cup {"_", ".", "-"}

CharAt(s, i) == SubSeq(s, i, i)

\* t occurs in s starting at position i
MatchAt(s, i, t) == /\ i >= 1
                    /\ i + Len(t) - 1 <= Len(s)
                    /\ SubSeq(s, i, i + Len(t) - 1) = t

\* Python's  t in s
Contains(s, t) == \E i \in 1..(Len(s) - Len(t) + 1) : MatchAt(s, i, t)

\* number of consecutive digits of s from position i on
RECURSIVE DigitRun(_, _)
DigitRun(s, i) ==
    IF i <= Len(s) /\ CharAt(s, i) \in Digits THEN 1 + DigitRun(s, i + 1) ELSE 0

\* variant of the test below that takes any "beta" for a numbered one
HasBetaIterationLoose(s) == \E i \in 1..Len(s) : MatchAt(s, i, "beta")

\* re.search(r"beta\.\d+", s)
HasBetaIteration(s) ==
    \E i \in 1..Len(s) : MatchAt(s, i, "beta.") /\ DigitRun(s, i + 5) >= 1

RECURSIVE Reverse(_)
Reverse(s) == IF s = <<>> THEN <<>> ELSE Append(Reverse(Tail(s)), Head(s))

Range(s) == {s[i] : i \in 1..Len(s)}

Max(S) == CHOOSE x \in S : \A y \in S : y <= x

Min(S) == CHOOSE x \in S : \A y \in S : x <= y

----------------------------------------------------------------------------
(* Manifest Filter: filter_and_sort_manifests                              *)

versions_to_deduplicate == {"1.8.0", "1.14.0", "1.15.1", "1.49.0"}

\* variant of the pointer scan that keeps the first line it meets
FirstContaining(paths, marker) ==
    LET idx == {i \in 1..Len(paths) : Contains(paths[i], marker)}
    IN  IF idx = {} THEN None ELSE paths[Min(idx)]

\* first loop: the last path naming each channel pointer, None when absent
RECURSIVE LastContaining(_, _)
LastContaining(paths, marker) ==
    IF paths = <<>> THEN None
    ELSE IF Contains(paths[Len(paths)], marker) THEN paths[Len(paths)]
    ELSE LastContaining(SubSeq(paths, 1, Len(paths) - 1), marker)

\* the known-duplicate version a path matches, None when it matches none; no
\* path of the lists below holds two of them, so the order in which the loop
\* visits the set does not matter
current_version_match(path) ==
    IF \E v \in versions_to_deduplicate : Contains(path, v)
    THEN CHOOSE v \in versions_to_deduplicate : Contains(path, v)
    ELSE None

\* second loop, over the reversed list: rev_paths is what is left to visit,
\* handled the set handled_duplicates, acc the list processed_manifests
RECURSIVE FilterLoop(_, _, _, _, _)
FilterLoop(rev_paths, latest_stable, latest_beta, handled, acc) ==
    IF rev_paths = <<>> THEN acc
    ELSE
      LET path == Head(rev_paths)
          rest == Tail(rev_paths)
          m    == current_version_match(path)
      IN  IF Contains(path, "channel-rust-nightly.toml")
          THEN FilterLoop(rest, latest_stable, latest_beta, handled, acc)
          ELSE IF path = latest_beta \/ path = latest_stable
          THEN FilterLoop(rest, latest_stable, latest_beta, handled, acc)
          ELSE IF m # None /\ m \in handled
          THEN FilterLoop(rest, latest_stable, latest_beta, handled, acc)
          ELSE IF Contains(path, "beta") /\ ~HasBetaIteration(path)
          THEN FilterLoop(rest, latest_stable, latest_beta,
                          IF m # None THEN handled \cup {m} ELSE handled, acc)
          ELSE FilterLoop(rest, latest_stable, latest_beta,
                          IF m # None THEN handled \cup {m} ELSE handled,
                          Append(acc, path))

\* variant of the filter whose second loop walks the input oldest-first
filter_and_sort_manifests_forward(manifest_paths) ==
    LET latest_nightly == LastContaining(manifest_paths, "channel-rust-nightly.toml")
        latest_beta    == LastContaining(manifest_paths, "channel-rust-beta.toml")
        latest_stable  == LastContaining(manifest_paths, "channel-rust-stable.toml")
    IN  [processed_manifests |->
             FilterLoop(manifest_paths, latest_stable, latest_beta, {}, <<>>),
         latest_stable  |-> latest_stable,
         latest_beta    |-> latest_beta,
         latest_nightly |-> latest_nightly]

filter_and_sort_manifests(manifest_paths) ==
    LET latest_nightly == LastContaining(manifest_paths, "channel-rust-nightly.toml")
        latest_beta    == LastContaining(manifest_paths, "channel-rust-beta.toml")
        latest_stable  == LastContaining(manifest_paths, "channel-rust-stable.toml")
    IN  [processed_manifests |->
             FilterLoop(Reverse(manifest_paths), latest_stable, latest_beta, {}, <<>>),
         latest_stable  |-> latest_stable,
         latest_beta    |-> latest_beta,
         latest_nightly |-> latest_nightly]

----------------------------------------------------------------------------
(* Diff Planner: get_versions_to_process and sq.get_existing_versions      *)

\* where (?:-beta(?:\.\d+)?)?\.toml matched at position q ends, 0 for no match
TailEnd(s, q) ==
    IF MatchAt(s, q, "-beta")
    THEN LET d == IF MatchAt(s, q + 5, ".") /\ DigitRun(s, q + 6) >= 1
                  THEN 1 + DigitRun(s, q + 6) ELSE 0
         IN  IF d > 0 /\ MatchAt(s, q + 5 + d, ".toml") THEN q + 5 + d + 5
             ELSE IF MatchAt(s, q + 5, ".toml") THEN q + 10
             ELSE 0
    ELSE IF MatchAt(s, q, ".toml") THEN q + 5
    ELSE 0

\* the lengths the lazy group ([\d\w.-]+?) can take from position j
GroupLens(s, j) ==
    {k \in 1..(Len(s) - j + 1) :
        /\ \A n \in j..(j + k - 1) : CharAt(s, n) \in VersionChars
        /\ TailEnd(s, j + k) # 0}

\* the start positions at which version_pattern matches
PatternStarts(s) ==
    {i \in 1..Len(s) : MatchAt(s, i, "channel-rust-") /\ GroupLens(s, i + 13) # {}}

\* re.search(r"-(beta(?:\.\d+)?)", g).group(1), g holding "-beta"
BetaSuffix(g) ==
    LET i == Min({n \in 1..Len(g) : MatchAt(g, n, "-beta")})
        d == IF MatchAt(g, i + 5, ".") /\ DigitRun(g, i + 6) >= 1
             THEN 1 + DigitRun(g, i + 6) ELSE 0
    IN  SubSeq(g, i + 1, i + 4 + d)

\* the version get_versions_to_process reads from a manifest path, None when
\* version_pattern does not match
PathVersion(path) ==
    IF PatternStarts(path) = {} THEN None
    ELSE LET i  == Min(PatternStarts(path))
             k  == Min(GroupLens(path, i + 13))
             g1 == SubSeq(path, i + 13, i + 12 + k)
             g0 == SubSeq(path, i, TailEnd(path, i + 13 + k) - 1)
         IN  IF Contains(g0, "-beta") THEN g1 \o "-" \o BetaSuffix(g0) ELSE g1

StoredVersions(d) == {r.version : r \in d.rust_versions}

get_existing_versions(d, versions_list) ==
    {v \in Range(versions_list) : v \in StoredVersions(d)}

\* manifest_versions is a dict: a path listed twice is one key
RECURSIVE DictKeys(_)
DictKeys(paths) ==
    IF paths = <<>> THEN <<>>
    ELSE LET front == DictKeys(SubSeq(paths, 1, Len(paths) - 1))
             last  == paths[Len(paths)]
         IN  IF last \in Range(front) THEN front ELSE Append(front, last)

\* variant of get_versions_to_process that does not look at the store
get_versions_to_process_all(manifest_paths, d) ==
    LET all == DictKeys(manifest_paths)
    IN  SelectSeq(all, LAMBDA path : PathVersion(path) # None)

\* manifest_versions: the version of every key, None for a path without one
ManifestVersions(all) == [i \in 1..Len(all) |-> PathVersion(all[i])]

\* versions_to_check: the versions that were extracted
VersionsToCheck(versions) ==
    LET idx == SelectSeq([i \in 1..Len(versions) |-> i], LAMBDA i : versions[i] # None)
    IN  [j \in 1..Len(idx) |-> versions[idx[j]]]

\* new_manifest_paths: the keys with a version the store does not hold
NewManifestPaths(all, versions, existing) ==
    LET new == SelectSeq([i \in 1..Len(all) |-> i],
                         LAMBDA i : versions[i] # None /\ versions[i] \notin existing)
    IN  [j \in 1..Len(new) |-> all[new[j]]]

get_versions_to_process(manifest_paths, d) ==
    NewManifestPaths(DictKeys(manifest_paths), ManifestVersions(DictKeys(manifest_paths)),
                     get_existing_versions(d,
                         VersionsToCheck(ManifestVersions(DictKeys(manifest_paths)))))

\* the paths reported by "Could not extract version from manifest path"
UnextractablePaths(manifest_paths) ==
    {p \in Range(manifest_paths) : PathVersion(p) = None}

----------------------------------------------------------------------------
(* Release Parser: parse_manifest                                          *)
(*                                                                         *)
(* A decoded manifest is a record; a string key the TOML lacks is None, a  *)
(* table is the sequence of its entries in document order and is empty     *)
(* when the TOML lacks it.                                                 *)

\* re.match(r"([\d\w.-]+)", version_string).group(1), None without a match
RECURSIVE VersionRun(_, _)
VersionRun(s, i) ==
    IF i <= Len(s) /\ CharAt(s, i) \in VersionChars THEN 1 + VersionRun(s, i + 1) ELSE 0

VersionPrefix(version_string) ==
    IF VersionRun(version_string, 1) = 0 THEN None
    ELSE SubSeq(version_string, 1, VersionRun(version_string, 1))

\* ArtefactType[artefact_key.replace("-", "_")], 0 for a KeyError
ArtefactType(artefact_key) ==
    IF artefact_key \in {"installer-msi", "installer_msi"} THEN 1
    ELSE IF artefact_key \in {"installer-pkg", "installer_pkg"} THEN 2
    ELSE IF artefact_key \in {"source-code", "source_code"} THEN 3
    ELSE 0

\* dict.get(key, default)
Get(value, default) == IF value = None THEN default ELSE value

\* variant of ParseTarget that asks for the URL only
ParseTargetUrlOnly(t) ==
    LET pkg_url  == Get(t.xz_url, t.url)
        pkg_hash == Get(t.xz_hash, t.hash)
    IN  IF pkg_url # None
        THEN <<[name |-> t.name, url |-> pkg_url, hash |-> pkg_hash]>>
        ELSE <<>>

\* the Target of one pkg.<comp>.target.<name> table, <<>> when it is skipped
ParseTarget(t) ==
    LET pkg_url  == Get(t.xz_url, t.url)
        pkg_hash == Get(t.xz_hash, t.hash)
    IN  IF pkg_url # None /\ pkg_hash # None
        THEN <<[name |-> t.name, url |-> pkg_url, hash |-> pkg_hash]>>
        ELSE <<>>

RECURSIVE Flatten(_)
Flatten(ss) == IF ss = <<>> THEN <<>> ELSE Head(ss) \o Flatten(Tail(ss))

ParseTargets(ts) == Flatten([i \in 1..Len(ts) |-> ParseTarget(ts[i])])

ParseComponent(c, version) ==
    LET targets == ParseTargets(c.target)
    IN  IF targets = <<>> THEN <<>>
        ELSE <<[name |-> c.name, version |-> Get(c.version, "N/A"),
                rust_version |-> version, git_commit |-> c.git_commit_hash,
                targets |-> targets]>>

\* the Artefacts of one artifacts.<key> table
ParseArtefactKey(a) ==
    IF ArtefactType(a.key) = 0 THEN <<>>
    ELSE Flatten([i \in 1..Len(a.target) |->
            LET t == a.target[i]
            IN  IF t.list = <<>> THEN <<>>
                ELSE IF t.list[1].url # None /\ t.list[1].hash_sha256 # None
                THEN <<[type |-> ArtefactType(a.key), url |-> t.list[1].url,
                        hash |-> t.list[1].hash_sha256, target |-> t.name]>>
                ELSE <<>>])

RustcVersionString(data) ==
    LET rustc == {i \in 1..Len(data.pkg) : data.pkg[i].name = "rustc"}
    IN  IF rustc = {} THEN None ELSE data.pkg[Min(rustc)].version

\* parse_manifest after a successful fetch: data is the decoded document, or
\* NotToml.  NoRelease is the None of a parse failure.
parse_manifest(manifest_path, data) ==
    IF data = NotToml THEN NoRelease
    ELSE IF data.date = None THEN NoRelease
    ELSE IF RustcVersionString(data) = None THEN NoRelease
    ELSE IF VersionPrefix(RustcVersionString(data)) = None THEN NoRelease
    ELSE
      LET version == VersionPrefix(RustcVersionString(data))
      IN  [version |-> version,
           release_date |-> data.date,
           manifest_url |-> "https://" \o manifest_path,
           components |->
               Flatten([i \in 1..Len(data.pkg) |-> ParseComponent(data.pkg[i], version)]),
           profiles |-> data.profiles,
           renames |-> data.renames,
           artefacts |->
               Flatten([i \in 1..Len(data.artifacts) |->
                           ParseArtefactKey(data.artifacts[i])]),
           latest_stable |-> FALSE,
           latest_beta |-> FALSE,
           latest_nightly |-> Contains(manifest_path, "nightly")
                              /\ Contains(manifest_path, "channel")]

----------------------------------------------------------------------------
(* The SQLite store: DB_SCHEMA and the statements of helpers/sqlite.py     *)
(*                                                                         *)
(* A table is the set of its rows.  An INTEGER PRIMARY KEY without         *)
(* AUTOINCREMENT takes the largest rowid of the table plus one.            *)

EmptyDb == [rust_versions |-> {}, components |-> {}, targets |-> {}, artefacts |-> {}]

NextId(rows) == IF rows = {} THEN 1 ELSE Max({r.id : r \in rows}) + 1

DigitValue(c) ==
    CASE c = "0" -> 0 [] c = "1" -> 1 [] c = "2" -> 2 [] c = "3" -> 3 [] c = "4" -> 4
      [] c = "5" -> 5 [] c = "6" -> 6 [] c = "7" -> 7 [] c = "8" -> 8 [] c = "9" -> 9

RECURSIVE StrToNat(_)
StrToNat(s) ==
    IF s = "" THEN 0
    ELSE 10 * StrToNat(SubSeq(s, 1, Len(s) - 1)) + DigitValue(CharAt(s, Len(s)))

\* a numeric identifier of semver: digits, no leading zero
IsNumericId(s) ==
    /\ Len(s) >= 1
    /\ \A i \in 1..Len(s) : CharAt(s, i) \in Digits
    /\ (Len(s) > 1 => CharAt(s, 1) # "0")

\* s.split(sep)[0]
BeforeFirst(s, sep) ==
    IF Contains(s, sep)
    THEN SubSeq(s, 1, Min({i \in 1..Len(s) : MatchAt(s, i, sep)}) - 1)
    ELSE s

\* the positions of the dots of s
Dots(s) == {i \in 1..Len(s) : CharAt(s, i) = "."}

\* semver's parse of major.minor.patch, <<>> for the ValueError
SemverCore(s) ==
    IF Cardinality(Dots(s)) # 2 THEN <<>>
    ELSE LET d1 == Min(Dots(s))
             d2 == Max(Dots(s))
             a  == SubSeq(s, 1, d1 - 1)
             b  == SubSeq(s, d1 + 1, d2 - 1)
             c  == SubSeq(s, d2 + 1, Len(s))
         IN  IF IsNumericId(a) /\ IsNumericId(b) /\ IsNumericId(c)
             THEN <<StrToNat(a), StrToNat(b), StrToNat(c)>>
             ELSE <<>>

\* variant of the version test that lets every version through
AtLeastAnyVersion(core) == TRUE

\* semver.compare(version.split('-')[0], "1.32.0") >= 0, core a parsed version
AtLeast_1_32_0(core) ==
    \/ core[1] > 1
    \/ core[1] = 1 /\ core[2] >= 32

\* step 1: INSERT INTO rust_versions; the primary key refuses a stored version
InsertVersionRow(d, rust) ==
    [d EXCEPT !.rust_versions = @ \cup
        {[version |-> rust.version, release_date |-> rust.release_date,
          latest_stable |-> IF rust.latest_stable THEN 1 ELSE 0,
          latest_beta |-> IF rust.latest_beta THEN 1 ELSE 0,
          latest_nightly |-> IF rust.latest_nightly THEN 1 ELSE 0]}]

\* step 2: executemany INSERT INTO components, one row after the other; a row
\* that breaks UNIQUE (rust_version, name) raises and the rows before it stay
RECURSIVE InsertComponents(_, _)
InsertComponents(d, comps) ==
    IF comps = <<>> THEN [db |-> d, raised |-> FALSE]
    ELSE LET c == Head(comps)
         IN  IF \E r \in d.components : r.rust_version = c.rust_version /\ r.name = c.name
             THEN [db |-> d, raised |-> TRUE]
             ELSE InsertComponents(
                    [d EXCEPT !.components = @ \cup
                        {[id |-> NextId(d.components), name |-> c.name,
                          version |-> c.version, rust_version |-> c.rust_version,
                          git_commit |-> c.git_commit, profile_complete |-> 0,
                          profile_default |-> 0, profile_minimal |-> 0]}],
                    Tail(comps))

\* get_id_for_component
get_id_for_component(d, component_name, rust_version) ==
    LET ids == {r.id : r \in {x \in d.components :
                        x.name = component_name /\ x.rust_version = rust_version}}
    IN  IF ids = {} THEN 0 ELSE Min(ids)

\* step 3: target_values, the rows of every component's targets in order
TargetValues(d, rust) ==
    Flatten([i \in 1..Len(rust.components) |->
        LET comp == rust.components[i]
            cid  == get_id_for_component(d, comp.name, rust.version)
            kept == SelectSeq(comp.targets, LAMBDA t : t.url # None /\ t.hash # None)
        IN  [j \in 1..Len(kept) |->
                [name |-> kept[j].name, url |-> kept[j].url, hash |-> kept[j].hash,
                 component_id |-> cid]]])

RECURSIVE InsertTargets(_, _)
InsertTargets(d, values) ==
    IF values = <<>> THEN d
    ELSE InsertTargets(
            [d EXCEPT !.targets = @ \cup
                {[id |-> NextId(d.targets), name |-> Head(values).name,
                  url |-> Head(values).url, hash |-> Head(values).hash,
                  component_id |-> Head(values).component_id]}],
            Tail(values))

\* step 4: executemany INSERT INTO artefacts; url is UNIQUE: the first row
\* whose url is stored raises and the rows before it stay
RECURSIVE InsertArtefacts(_, _, _)
InsertArtefacts(d, version, arts) ==
    IF arts = <<>> THEN [db |-> d, raised |-> FALSE]
    ELSE LET a == Head(arts)
         IN  IF \E r \in d.artefacts : r.url = a.url
             THEN [db |-> d, raised |-> TRUE]
             ELSE InsertArtefacts(
                    [d EXCEPT !.artefacts = @ \cup
                        {[id |-> NextId(d.artefacts), rust_version |-> version,
                          type |-> a.type, target |-> a.target, url |-> a.url,
                          hash |-> a.hash]}],
                    version, Tail(arts))

ProfileColumns == {"complete", "default", "minimal"}

\* step 5: one UPDATE components SET profile_<p> = 1 ... per listed profile
RECURSIVE UpdateProfiles(_, _, _)
UpdateProfiles(d, version, profiles) ==
    IF profiles = <<>> THEN d
    ELSE LET p    == Head(profiles)
             hit(r) == r.rust_version = version /\ r.name \in Range(p.components)
             set(r) == IF ~hit(r) THEN r
                       ELSE IF p.name = "complete" THEN [r EXCEPT !.profile_complete = 1]
                       ELSE IF p.name = "default" THEN [r EXCEPT !.profile_default = 1]
                       ELSE [r EXCEPT !.profile_minimal = 1]
         IN  IF p.components = <<>> \/ p.name \notin ProfileColumns
             THEN UpdateProfiles(d, version, Tail(profiles))
             ELSE UpdateProfiles([d EXCEPT !.components = {set(r) : r \in @}],
                                 version, Tail(profiles))

\* insert_rust_version: the store it leaves and whether it raised.  No
\* statement is undone when a later one raises.
insert_rust_version(d, rust) ==
    IF rust.version \in StoredVersions(d) THEN [db |-> d, raised |-> TRUE]
    ELSE
      LET d1 == InsertVersionRow(d, rust)
          c  == InsertComponents(d1, rust.components)
      IN  IF c.raised THEN c
          ELSE
            LET d3 == IF rust.components # <<>>
                      THEN InsertTargets(c.db, TargetValues(c.db, rust)) ELSE c.db
                a  == InsertArtefacts(d3, rust.version,
                         SelectSeq(rust.artefacts,
                                   LAMBDA x : x.url # None /\ x.hash # None))
            IN  IF a.raised THEN a
                ELSE IF rust.profiles = <<>> THEN a
                ELSE IF SemverCore(BeforeFirst(rust.version, "-")) = <<>>
                THEN [db |-> a.db, raised |-> TRUE]
                ELSE IF AtLeast_1_32_0(SemverCore(BeforeFirst(rust.version, "-")))
                THEN [db |-> UpdateProfiles(a.db, rust.version, rust.profiles),
                      raised |-> FALSE]
                ELSE a

\* sq.set_rust_channel_flags: one UPDATE over every row; a NULL parameter
\* equals no version
sq_set_rust_channel_flags_keep(d, stable, beta, nightly) ==
    [d EXCEPT !.rust_versions =
        {[r EXCEPT
            !.latest_stable  = IF stable # None /\ r.version = stable THEN 1 ELSE @,
            !.latest_beta    = IF beta # None /\ r.version = beta THEN 1 ELSE @,
            !.latest_nightly = IF nightly # None /\ r.version = nightly THEN 1 ELSE @]
         : r \in @}]

\* variant of sq.set_rust_channel_flags that clears a flag only when it is
\* given a version for the channel
sq_set_rust_channel_flags_toggle(d, stable, beta, nightly) ==
    [d EXCEPT !.rust_versions =
        {[r EXCEPT
            !.latest_stable  = IF stable = None THEN @
                               ELSE IF r.version = stable THEN 1 ELSE 0,
            !.latest_beta    = IF beta = None THEN @
                               ELSE IF r.version = beta THEN 1 ELSE 0,
            !.latest_nightly = IF nightly = None THEN @
                               ELSE IF r.version = nightly THEN 1 ELSE 0]
         : r \in @}]

sq_set_rust_channel_flags(d, stable, beta, nightly) ==
    [d EXCEPT !.rust_versions =
        {[r EXCEPT
            !.latest_stable  = IF stable # None /\ r.version = stable THEN 1 ELSE 0,
            !.latest_beta    = IF beta # None /\ r.version = beta THEN 1 ELSE 0,
            !.latest_nightly = IF nightly # None /\ r.version = nightly THEN 1 ELSE 0]
         : r \in @}]

\* DELETE FROM rust_versions WHERE <gone>, with PRAGMA foreign_keys = ON:
\* ON DELETE CASCADE removes the components and artefacts of the deleted
\* versions and the targets of the deleted components
DeleteVersionsNoCascade(d, gone) ==
    [d EXCEPT !.rust_versions = {r \in @ : r.version \notin gone}]

DeleteVersions(d, gone) ==
    LET comps == {c \in d.components : c.rust_version \in gone}
    IN  [rust_versions |-> {r \in d.rust_versions : r.version \notin gone},
         components    |-> d.components \ comps,
         targets       |-> {t \in d.targets : t.component_id \notin {c.id : c \in comps}},
         artefacts     |-> {a \in d.artefacts : a.rust_version \notin gone}]

\* variants of delete_nightly with another WHERE clause
delete_nightly_all(d) == DeleteVersions(d, StoredVersions(d))

delete_nightly_none(d) == d

delete_nightly_flagged(d) ==
    DeleteVersions(d, {r.version : r \in {x \in d.rust_versions :
                          x.latest_nightly = 1 \/ x.latest_stable = 1}})

delete_nightly(d) ==
    DeleteVersions(d, {r.version : r \in {x \in d.rust_versions : x.latest_nightly = 1}})

----------------------------------------------------------------------------
(* Upstream: the distribution server                                       *)

MaxRuns == 2       \* runs of main() in one behaviour
MaxRev == 1        \* in-place republications of the nightly pointer
MaxNumber == 2     \* largest --number
MaxFaults == 1     \* failed fetches and store errors in one behaviour

\* what the server publishes, oldest first: each publication adds its lines
\* to manifests.txt
Publications ==
    <<<<"dist/a/channel-rust-1.8.0.toml",
        "dist/a/channel-rust-stable.toml",
        "dist/a/channel-rust-nightly.toml">>,
      <<"dist/b/channel-rust-1.41.0-beta.3.toml",
        "dist/b/channel-rust-beta.toml">>,
      <<"dist/c/channel-rust-1.41.0.toml",
        "dist/c/channel-rust-stable.toml",
        "dist/c/channel-rust-nightly.toml">>>>

Upstream == Flatten(Publications)

\* manifests.txt after the first n publications
ManifestList(n) == Flatten(SubSeq(Publications, 1, n))

NoXz(name, url, hash) ==
    [name |-> name, url |-> url, hash |-> hash, xz_url |-> None, xz_hash |-> None]

Installer(key, url) ==
    [key |-> key,
     target |-> <<[name |-> "x86_64-pc-windows-msvc",
                   list |-> <<[url |-> url, hash_sha256 |-> "sha-" \o url]>>]>>]

\* channel-rust-1.8.0.toml and the first stable pointer, which is a copy of it
Doc_1_8_0 ==
    [date |-> "2016-04-14",
     pkg |-> <<[name |-> "rustc", version |-> "1.8.0 (db2939409 2016-04-11)",
                git_commit_hash |-> None,
                target |-> <<NoXz("x86_64-unknown-linux-gnu", "rustc-1.8.0.tar.gz", "h1")>>],
               [name |-> "rust-docs", version |-> None, git_commit_hash |-> None,
                target |-> <<NoXz("x86_64-unknown-linux-gnu", "docs-1.8.0.tar.gz", None)>>]>>,
     artifacts |-> <<Installer("installer-msi", "rust-x86_64.msi")>>,
     profiles |-> <<>>, renames |-> <<>>]

\* channel-rust-1.41.0-beta.3.toml and the beta pointer, which is a copy of
\* it; its installer has the url the 1.8.0 installer has
Doc_1_41_0_beta_3 ==
    [date |-> "2020-01-20",
     pkg |-> <<[name |-> "rustc", version |-> "1.41.0-beta.3 (c1a2b3 2020-01-18)",
                git_commit_hash |-> "c1a2b3",
                target |-> <<[name |-> "x86_64-unknown-linux-gnu",
                              url |-> "rustc-beta.tar.gz", hash |-> "h2",
                              xz_url |-> "rustc-beta.tar.xz", xz_hash |-> "h3"]>>],
               [name |-> "cargo", version |-> "0.42.0-beta (86334295e 2020-01-31)",
                git_commit_hash |-> None,
                target |-> <<NoXz("x86_64-unknown-linux-gnu", "cargo-beta.tar.gz", "h4")>>]>>,
     artifacts |-> <<Installer("source-code", "rustc-beta-src.tar.gz"),
                     Installer("installer-msi", "rust-x86_64.msi")>>,
     profiles |-> <<[name |-> "minimal", components |-> <<"rustc">>],
                    [name |-> "default", components |-> <<"rustc", "cargo">>]>>,
     renames |-> <<>>]

\* channel-rust-1.41.0.toml and the second stable pointer, which is a copy of it
Doc_1_41_0 ==
    [date |-> "2020-01-30",
     pkg |-> <<[name |-> "rustc", version |-> "1.41.0 (5e1a79984 2020-01-27)",
                git_commit_hash |-> "5e1a79984",
                target |-> <<[name |-> "x86_64-unknown-linux-gnu",
                              url |-> "rustc-1.41.0.tar.gz", hash |-> "h6",
                              xz_url |-> "rustc-1.41.0.tar.xz", xz_hash |-> "h7"]>>]>>,
     artifacts |-> <<Installer("installer-msi", "rust-1.41.0-x86_64.msi")>>,
     profiles |-> <<[name |-> "minimal", components |-> <<"rustc">>]>>,
     renames |-> <<>>]

\* the version the nightly pointer holds in its r-th revision
NightlyVersion(r) ==
    CASE r = 0 -> "1.42.0-nightly"
      [] r = 1 -> "1.43.0-nightly"
      [] r = 2 -> "1.44.0-nightly"
      [] OTHER -> "1.45.0-nightly"

\* the nightly pointer of a day: the version of the revision, the date of the day
Doc_nightly(r, date) ==
    [date |-> date,
     pkg |-> <<[name |-> "rustc",
                version |-> NightlyVersion(r) \o " (58b834344 2020-01-31)",
                git_commit_hash |-> "58b834344",
                target |-> <<NoXz("x86_64-unknown-linux-gnu",
                                  "rustc-" \o NightlyVersion(r) \o ".tar.gz", "h5")>>]>>,
     artifacts |-> <<Installer("installer-pkg", "rust-" \o NightlyVersion(r) \o ".pkg")>>,
     profiles |-> <<[name |-> "minimal", components |-> <<"rustc">>]>>,
     renames |-> <<>>]

\* the decoded body the server returns for a path while the nightly pointer
\* is in revision r
DocAt(path, r) ==
    IF Contains(path, "dist/c/channel-rust-nightly.toml")
    THEN Doc_nightly(r, "2020-02-03")
    ELSE IF Contains(path, "channel-rust-nightly.toml") THEN Doc_nightly(r, "2020-02-01")
    ELSE IF Contains(path, "dist/b/") THEN Doc_1_41_0_beta_3
    ELSE IF Contains(path, "dist/c/") THEN Doc_1_41_0
    ELSE Doc_1_8_0

\* parse_manifest of every path of the server in every revision, computed once
ParsedAt ==
    [path \in Range(Upstream) |->
        [r \in 0..MaxRev |-> parse_manifest(path, DocAt(path, r))]]

\* filter_and_sort_manifests of every state of manifests.txt, computed once
FilteredAt ==
    [n \in 0..Len(Publications) |-> filter_and_sort_manifests(ManifestList(n))]

\* every Release the server's documents parse to
AllParsed ==
    {ParsedAt[path][r] : path \in Range(Upstream), r \in 0..MaxRev} \ {NoRelease}

----------------------------------------------------------------------------
(* main()                                                                  *)

Faults == hist.faults

\* what the properties remember of one run: how it ended, whether every fetch
\* and parse succeeded, what the server held when it began (published, rev)
\* and ended (rev1), its --number and --force-update, and the exit status of
\* the process
NoRun ==
    [outcome |-> "none", ok |-> TRUE, published |-> 0, rev |-> 0, rev1 |-> 0,
     number |-> 0, force |-> FALSE, status |-> 0]

\* faults counts the failures so far, before is the file when the run began,
\* dirty tells whether the transaction differed from the file when it ended,
\* run is the current or last run and prev the run before it, raised holds the
\* versions whose insertion raised in the running run, warned the paths the
\* planner of the run logged a warning for, queried tells whether the run read
\* the stored versions to plan, pointers holds the versions the flag update of
\* the running run was given, overtaken tells whether a worker of the running
\* run finished before a worker of an earlier manifest of the batch
NoPointers == [stable |-> None, beta |-> None, nightly |-> None]

NewHist ==
    [faults |-> 0, before |-> EmptyDb, dirty |-> FALSE, run |-> NoRun, prev |-> NoRun,
     raised |-> {}, warned |-> {}, queried |-> FALSE, pointers |-> NoPointers,
     overtaken |-> FALSE]

BeginRun(h, force, n) ==
    [h EXCEPT !.before = db, !.dirty = FALSE, !.prev = h.run,
              !.warned = {}, !.queried = FALSE, !.overtaken = FALSE,
              !.run = [outcome |-> "running", ok |-> TRUE, published |-> published,
                       rev |-> rev, rev1 |-> rev, number |-> n, force |-> force,
                       status |-> 0]]

\* sys.exit(message) ends the process with status 1; the handlers of lines
\* 666-675 roll back and let main() return, and the process ends with status 0
ExitStatus(outcome) == IF outcome = "exited" THEN 1 ELSE 0

EndRun(h, outcome) ==
    [h EXCEPT !.run.outcome = outcome, !.run.rev1 = rev, !.raised = {},
              !.run.status = ExitStatus(outcome), !.overtaken = FALSE,
              !.pointers = NoPointers]

\* lines 521-533 and 414-431: what the choice of the candidates logs and reads
LogPlan(h, filtered, new_db, force) ==
    IF force \/ new_db THEN h
    ELSE [h EXCEPT !.warned = UnextractablePaths(filtered),
                   !.queried = \E i \in 1..Len(filtered) : PathVersion(filtered[i]) # None]

Init ==
    /\ pc = "idle"
    /\ runs = 0
    /\ published = 0
    /\ rev = 0
    /\ dbExists = FALSE
    /\ db = EmptyDb
    /\ conn = Closed
    /\ is_new_db = FALSE
    /\ force_update = FALSE
    /\ number = 0
    /\ all_manifest_paths = <<>>
    /\ filtered_paths = <<>>
    /\ stable_path = None
    /\ beta_path = None
    /\ nightly_path = None
    /\ manifests_to_parse = <<>>
    /\ results = <<>>
    /\ unique_versions_to_insert = <<>>
    /\ next_insert = 0
    /\ response = None
    /\ hist = NewHist

\* variant of ParseBatch that puts the nightly pointer behind the candidates
ParseBatchNightlyLast(filtered, nightly, new_db, force, n, d) ==
    LET candidates == IF force \/ new_db THEN filtered
                      ELSE get_versions_to_process(filtered, d)
        batch      == IF nightly # None THEN candidates \o <<nightly>> ELSE candidates
    IN  IF n > 0 THEN SubSeq(batch, 1, IF n < Len(batch) THEN n ELSE Len(batch))
        ELSE batch

\* lines 537-539: the nightly pointer goes to the front of the candidates
WithNightly(nightly, candidates) ==
    IF nightly # None THEN <<nightly>> \o candidates ELSE candidates

\* lines 541-546: --number keeps the first n of the batch
Truncated(batch, n) ==
    IF n > 0 THEN SubSeq(batch, 1, IF n < Len(batch) THEN n ELSE Len(batch))
    ELSE batch

\* variant of ParseBatch that asks the planner in every mode
ParseBatchAlwaysPlans(filtered, nightly, new_db, force, n, d) ==
    LET candidates == get_versions_to_process(filtered, d)
        batch      == IF nightly # None THEN <<nightly>> \o candidates ELSE candidates
    IN  IF n > 0 THEN SubSeq(batch, 1, IF n < Len(batch) THEN n ELSE Len(batch))
        ELSE batch

\* lines 521-546: the parse batch
ParseBatch(filtered, nightly, new_db, force, n, d) ==
    Truncated(WithNightly(nightly, IF force \/ new_db THEN filtered
                                   ELSE get_versions_to_process(filtered, d)), n)

\* lines 491-557: connect, create the tables of a new file, fetch and filter
\* the manifest list, plan, and return when there is nothing to parse
StartRun ==
    /\ pc = "idle"
    /\ runs < MaxRuns
    /\ \E force \in BOOLEAN, n \in 0..MaxNumber :
         LET paths == ManifestList(published)
             f     == FilteredAt[published]
         IN
         \E batch \in {ParseBatch(f.processed_manifests, f.latest_nightly,
                                  ~dbExists, force, n, db)} :
             /\ is_new_db' = ~dbExists
             /\ dbExists' = TRUE
             /\ force_update' = force
             /\ number' = n
             /\ all_manifest_paths' = paths
             /\ filtered_paths' = f.processed_manifests
             /\ stable_path' = f.latest_stable
             /\ beta_path' = f.latest_beta
             /\ nightly_path' = f.latest_nightly
             /\ manifests_to_parse' = batch
             /\ unique_versions_to_insert' = <<>>
             /\ next_insert' = 0
             /\ IF batch = <<>>
                THEN /\ pc' = "idle"
                     /\ runs' = runs + 1
                     /\ conn' = Closed
                     /\ results' = <<>>
                     /\ hist' = EndRun(LogPlan(BeginRun(hist, force, n),
                                               f.processed_manifests, ~dbExists, force),
                                       "returned")
                ELSE /\ pc' = "parse"
                     /\ runs' = runs
                     /\ conn' = db
                     /\ results' = [i \in 1..Len(batch) |-> Pending]
                     /\ hist' = LogPlan(BeginRun(hist, force, n),
                                        f.processed_manifests, ~dbExists, force)
    /\ UNCHANGED <<published, rev, db>>
    /\ UNCHANGED response

\* lines 94-102: the manifest list cannot be fetched and the run exits
FetchManifestListFails ==
    /\ pc = "idle"
    /\ runs < MaxRuns
    /\ Faults < MaxFaults
    /\ dbExists' = TRUE
    /\ runs' = runs + 1
    /\ hist' = [EndRun(BeginRun(hist, FALSE, 0), "exited")
                EXCEPT !.faults = @ + 1, !.run.ok = FALSE]
    /\ UNCHANGED <<pc, published, rev, db, conn, is_new_db, force_update, number,
                   all_manifest_paths, filtered_paths, stable_path, beta_path,
                   nightly_path, manifests_to_parse, results,
                   unique_versions_to_insert, next_insert>>
    /\ UNCHANGED response

\* variant of ParseWorker that inserts its release into the store itself
ParseWorkerInserts(i) ==
    /\ pc = "parse"
    /\ results[i] = Pending
    /\ \/ /\ results' = [results EXCEPT ![i] = ParsedAt[manifests_to_parse[i]][rev]]
          /\ hist' = [hist EXCEPT !.overtaken = @ \/ \E j \in 1..(i - 1) : results[j] = Pending]
          /\ conn' = IF ParsedAt[manifests_to_parse[i]][rev] = NoRelease THEN conn
                     ELSE insert_rust_version(conn, ParsedAt[manifests_to_parse[i]][rev]).db
       \/ /\ Faults < MaxFaults
          /\ results' = [results EXCEPT ![i] = NoRelease]
          /\ hist' = [hist EXCEPT !.faults = @ + 1, !.run.ok = FALSE,
                                  !.overtaken = @ \/ \E j \in 1..(i - 1) : results[j] = Pending]
          /\ conn' = conn
    /\ UNCHANGED <<pc, runs, published, rev, dbExists, db, is_new_db,
                   force_update, number, all_manifest_paths, filtered_paths,
                   stable_path, beta_path, nightly_path, manifests_to_parse,
                   unique_versions_to_insert, next_insert>>
    /\ UNCHANGED response

\* variant of ParseWorker whose result is stored in the order of completion
ParseWorkerAsCompleted(i) ==
    /\ pc = "parse"
    /\ results[i] = Pending
    /\ \E slot \in {Min({j \in 1..Len(results) : results[j] = Pending})} :
          \/ /\ results' = [results EXCEPT ![slot] = ParsedAt[manifests_to_parse[i]][rev]]
             /\ hist' = [hist EXCEPT !.overtaken = @ \/ slot # i]
          \/ /\ Faults < MaxFaults
             /\ results' = [results EXCEPT ![slot] = NoRelease]
             /\ hist' = [hist EXCEPT !.faults = @ + 1, !.run.ok = FALSE,
                                     !.overtaken = @ \/ slot # i]
    /\ UNCHANGED <<pc, runs, published, rev, dbExists, db, conn, is_new_db,
                   force_update, number, all_manifest_paths, filtered_paths,
                   stable_path, beta_path, nightly_path, manifests_to_parse,
                   unique_versions_to_insert, next_insert>>
    /\ UNCHANGED response

\* whether the worker of manifest i finishes before an earlier one
Overtakes(i) == \E j \in 1..(i - 1) : results[j] = Pending

\* lines 560-567: one worker of the pool fetches and parses one manifest
ParseWorker(i) ==
    /\ pc = "parse"
    /\ results[i] = Pending
    /\ \/ /\ results' = [results EXCEPT ![i] = ParsedAt[manifests_to_parse[i]][rev]]
          /\ hist' = [hist EXCEPT !.overtaken = @ \/ Overtakes(i)]
       \/ /\ Faults < MaxFaults
          /\ results' = [results EXCEPT ![i] = NoRelease]
          /\ hist' = [hist EXCEPT !.faults = @ + 1, !.run.ok = FALSE,
                                  !.overtaken = @ \/ Overtakes(i)]
    /\ UNCHANGED <<pc, runs, published, rev, dbExists, db, conn, is_new_db,
                   force_update, number, all_manifest_paths, filtered_paths,
                   stable_path, beta_path, nightly_path, manifests_to_parse,
                   unique_versions_to_insert, next_insert>>
    /\ UNCHANGED response

\* lines 581-598: keep, for every version, the last result of the batch
RECURSIVE Deduplicate(_, _)
Deduplicate(parsed, unique) ==
    IF parsed = <<>> THEN unique
    ELSE Deduplicate(Tail(parsed),
            Append(SelectSeq(unique, LAMBDA v : v.version # Head(parsed).version),
                   Head(parsed)))

\* lines 608-610
nightly_obj(unique) ==
    LET idx == {i \in 1..Len(unique) : unique[i].latest_nightly}
    IN  IF idx = {} THEN NoRelease ELSE unique[Min(idx)]

\* variant of Prepare that gives the run up when one manifest failed
PrepareAllOrNothing ==
    /\ pc = "parse"
    /\ \A i \in 1..Len(results) : results[i] # Pending
    /\ IF \E i \in 1..Len(results) : results[i] = NoRelease
       THEN /\ pc' = "idle"
            /\ runs' = runs + 1
            /\ conn' = Closed
            /\ hist' = EndRun(hist, "returned")
            /\ UNCHANGED unique_versions_to_insert
       ELSE /\ pc' = "delete"
            /\ unique_versions_to_insert' = Deduplicate(results, <<>>)
            /\ UNCHANGED <<runs, conn, hist>>
    /\ UNCHANGED <<published, rev, dbExists, db, is_new_db, force_update, number,
                   all_manifest_paths, filtered_paths, stable_path, beta_path,
                   nightly_path, manifests_to_parse, results, next_insert, response>>

\* variant of Prepare that keeps the first result of a version
PrepareKeepFirst ==
    /\ pc = "parse"
    /\ \A i \in 1..Len(results) : results[i] # Pending
    /\ LET parsed_rustversions == SelectSeq(results, LAMBDA r : r # NoRelease)
           first == SelectSeq([i \in 1..Len(parsed_rustversions) |-> i],
                        LAMBDA i : \A j \in 1..(i - 1) :
                            parsed_rustversions[j].version # parsed_rustversions[i].version)
       IN  IF parsed_rustversions = <<>>
           THEN /\ pc' = "idle"
                /\ runs' = runs + 1
                /\ conn' = Closed
                /\ hist' = EndRun(hist, "returned")
                /\ UNCHANGED unique_versions_to_insert
           ELSE /\ pc' = "delete"
                /\ unique_versions_to_insert'
                      = [k \in 1..Len(first) |-> parsed_rustversions[first[k]]]
                /\ UNCHANGED <<runs, conn, hist>>
    /\ UNCHANGED <<published, rev, dbExists, db, is_new_db, force_update, number,
                   all_manifest_paths, filtered_paths, stable_path, beta_path,
                   nightly_path, manifests_to_parse, results, next_insert, response>>

\* variant of Prepare whose early return recomputes the flags and commits
PrepareRecomputesFlags ==
    /\ pc = "parse"
    /\ \A i \in 1..Len(results) : results[i] # Pending
    /\ LET parsed_rustversions == SelectSeq(results, LAMBDA r : r # NoRelease)
       IN  IF parsed_rustversions = <<>>
           THEN /\ pc' = "idle"
                /\ runs' = runs + 1
                /\ conn' = Closed
                /\ db' = sq_set_rust_channel_flags(conn, None, None, None)
                /\ hist' = EndRun(hist, "returned")
                /\ UNCHANGED unique_versions_to_insert
           ELSE /\ pc' = "delete"
                /\ unique_versions_to_insert' = Deduplicate(parsed_rustversions, <<>>)
                /\ UNCHANGED <<runs, conn, hist, db>>
    /\ UNCHANGED <<published, rev, dbExists, is_new_db, force_update, number,
                   all_manifest_paths, filtered_paths, stable_path, beta_path,
                   nightly_path, manifests_to_parse, results, next_insert>>
    /\ UNCHANGED response

\* lines 568-602: collect the results; return when none parsed
Prepare ==
    /\ pc = "parse"
    /\ \A i \in 1..Len(results) : results[i] # Pending
    /\ LET parsed_rustversions == SelectSeq(results, LAMBDA r : r # NoRelease)
       IN  IF parsed_rustversions = <<>>
           THEN /\ pc' = "idle"
                /\ runs' = runs + 1
                /\ conn' = Closed
                /\ hist' = EndRun(hist, "returned")
                /\ UNCHANGED unique_versions_to_insert
           ELSE /\ pc' = "delete"
                /\ unique_versions_to_insert' = Deduplicate(parsed_rustversions, <<>>)
                /\ UNCHANGED <<runs, conn, hist>>
    /\ UNCHANGED <<published, rev, dbExists, db, is_new_db, force_update, number,
                   all_manifest_paths, filtered_paths, stable_path, beta_path,
                   nightly_path, manifests_to_parse, results, next_insert>>
    /\ UNCHANGED response

\* variant of Rollback that writes the transaction to the file
RollbackCommits(outcome) ==
    /\ pc' = "idle"
    /\ runs' = runs + 1
    /\ conn' = Closed
    /\ db' = conn
    /\ hist' = [EndRun(hist, outcome) EXCEPT !.faults = @ + 1, !.dirty = conn # db]

\* the connection is rolled back and closed: the file keeps what was committed
Rollback(outcome) ==
    /\ pc' = "idle"
    /\ runs' = runs + 1
    /\ conn' = Closed
    /\ db' = db
    /\ hist' = [EndRun(hist, outcome) EXCEPT !.faults = @ + 1, !.dirty = conn # db]

\* lines 612-631: delete the rows flagged latest_nightly
DeleteNightly ==
    /\ pc = "delete"
    /\ conn' = IF ~is_new_db /\ nightly_obj(unique_versions_to_insert) # NoRelease
               THEN delete_nightly(conn) ELSE conn
    /\ pc' = "insert"
    /\ next_insert' = 1
    /\ UNCHANGED <<runs, published, rev, dbExists, db, is_new_db, force_update, number,
                   all_manifest_paths, filtered_paths, stable_path, beta_path,
                   nightly_path, manifests_to_parse, results,
                   unique_versions_to_insert, hist>>
    /\ UNCHANGED response

\* lines 617-629: the DELETE raises.  execute_write_query's handler calls
\* log.error with keyword arguments on a logging.Logger (helpers/sqlite.py
\* lines 31 and 177-183), which raises TypeError: the handler of line 622 is
\* passed by and the handler of line 671 rolls back
DeleteNightlyFails ==
    /\ pc = "delete"
    /\ ~is_new_db /\ nightly_obj(unique_versions_to_insert) # NoRelease
    /\ Faults < MaxFaults
    /\ Rollback("rolled_back")
    /\ UNCHANGED <<published, rev, dbExists, is_new_db, force_update, number,
                   all_manifest_paths, filtered_paths, stable_path, beta_path,
                   nightly_path, manifests_to_parse, results,
                   unique_versions_to_insert, next_insert>>
    /\ UNCHANGED response

\* variant of InsertVersion whose loop ends at the first insertion that raises
InsertVersionStops ==
    /\ pc = "insert"
    /\ next_insert <= Len(unique_versions_to_insert)
    /\ \E r \in {insert_rust_version(conn, unique_versions_to_insert[next_insert])} :
          /\ conn' = r.db
          /\ hist' = IF r.raised
                     THEN [hist EXCEPT !.raised =
                              @ \cup {unique_versions_to_insert[next_insert].version}]
                     ELSE hist
          /\ pc' = IF r.raised \/ next_insert = Len(unique_versions_to_insert)
                   THEN "flags" ELSE "insert"
    /\ next_insert' = next_insert + 1
    /\ UNCHANGED <<runs, published, rev, dbExists, db, is_new_db, force_update, number,
                   all_manifest_paths, filtered_paths, stable_path, beta_path,
                   nightly_path, manifests_to_parse, results,
                   unique_versions_to_insert, response>>

\* variant of InsertVersion that deletes the flagged rows before each insertion
InsertVersionDeletesFirst ==
    /\ pc = "insert"
    /\ next_insert <= Len(unique_versions_to_insert)
    /\ \E r \in {insert_rust_version(delete_nightly(conn),
                                      unique_versions_to_insert[next_insert])} :
          /\ conn' = r.db
          /\ hist' = IF r.raised
                     THEN [hist EXCEPT !.raised =
                              @ \cup {unique_versions_to_insert[next_insert].version}]
                     ELSE hist
    /\ next_insert' = next_insert + 1
    /\ pc' = IF next_insert = Len(unique_versions_to_insert) THEN "flags" ELSE "insert"
    /\ UNCHANGED <<runs, published, rev, dbExists, db, is_new_db, force_update, number,
                   all_manifest_paths, filtered_paths, stable_path, beta_path,
                   nightly_path, manifests_to_parse, results,
                   unique_versions_to_insert, response>>

\* lines 637-652: one turn of the insertion loop; what insert_rust_version
\* raises is logged and the loop goes on
InsertVersion ==
    /\ pc = "insert"
    /\ next_insert <= Len(unique_versions_to_insert)
    /\ \E r \in {insert_rust_version(conn, unique_versions_to_insert[next_insert])} :
          /\ conn' = r.db
          /\ hist' = IF r.raised
                     THEN [hist EXCEPT !.raised =
                              @ \cup {unique_versions_to_insert[next_insert].version}]
                     ELSE hist
    /\ next_insert' = next_insert + 1
    /\ pc' = IF next_insert = Len(unique_versions_to_insert) THEN "flags" ELSE "insert"
    /\ UNCHANGED <<runs, published, rev, dbExists, db, is_new_db, force_update, number,
                   all_manifest_paths, filtered_paths, stable_path, beta_path,
                   nightly_path, manifests_to_parse, results,
                   unique_versions_to_insert>>
    /\ UNCHANGED response

\* lines 343-380: the version a pointer manifest parses to, None when there is
\* no pointer or its fetch or parse fails
PointerVersion(path, fetched) ==
    IF path = None \/ ~fetched THEN None
    ELSE IF ParsedAt[path][rev] = NoRelease THEN None
    ELSE ParsedAt[path][rev].version

\* lines 656-660 and 325-391: parse the three pointers again and update the flags
SetChannelFlags ==
    /\ pc = "flags"
    /\ \E s_ok \in BOOLEAN, b_ok \in BOOLEAN, n_ok \in BOOLEAN :
         LET failed == (IF stable_path # None /\ ~s_ok THEN 1 ELSE 0)
                       + (IF beta_path # None /\ ~b_ok THEN 1 ELSE 0)
                       + (IF nightly_path # None /\ ~n_ok THEN 1 ELSE 0)
         IN  /\ stable_path = None => s_ok
             /\ beta_path = None => b_ok
             /\ nightly_path = None => n_ok
             /\ Faults + failed <= MaxFaults
             /\ conn' = sq_set_rust_channel_flags(conn,
                            PointerVersion(stable_path, s_ok),
                            PointerVersion(beta_path, b_ok),
                            PointerVersion(nightly_path, n_ok))
             /\ hist' = [hist EXCEPT !.faults = @ + failed,
                                     !.run.ok = @ /\ failed = 0,
                                     !.pointers =
                                        [stable  |-> PointerVersion(stable_path, s_ok),
                                         beta    |-> PointerVersion(beta_path, b_ok),
                                         nightly |-> PointerVersion(nightly_path, n_ok)]]
    /\ pc' = "commit"
    /\ UNCHANGED <<runs, published, rev, dbExists, db, is_new_db, force_update, number,
                   all_manifest_paths, filtered_paths, stable_path, beta_path,
                   nightly_path, manifests_to_parse, results,
                   unique_versions_to_insert, next_insert>>
    /\ UNCHANGED response

\* lines 666-675: the UPDATE raises
SetChannelFlagsFails ==
    /\ pc = "flags"
    /\ Faults < MaxFaults
    /\ Rollback("rolled_back")
    /\ UNCHANGED <<published, rev, dbExists, is_new_db, force_update, number,
                   all_manifest_paths, filtered_paths, stable_path, beta_path,
                   nightly_path, manifests_to_parse, results,
                   unique_versions_to_insert, next_insert>>
    /\ UNCHANGED response

\* line 664 and lines 676-679
Commit ==
    /\ pc = "commit"
    /\ db' = conn
    /\ conn' = Closed
    /\ pc' = "idle"
    /\ runs' = runs + 1
    /\ hist' = [EndRun(hist, "committed") EXCEPT !.dirty = conn # db]
    /\ UNCHANGED <<published, rev, dbExists, is_new_db, force_update, number,
                   all_manifest_paths, filtered_paths, stable_path, beta_path,
                   nightly_path, manifests_to_parse, results,
                   unique_versions_to_insert, next_insert>>
    /\ UNCHANGED response

\* lines 666-670: the COMMIT raises
CommitFails ==
    /\ pc = "commit"
    /\ Faults < MaxFaults
    /\ Rollback("rolled_back")
    /\ UNCHANGED <<published, rev, dbExists, is_new_db, force_update, number,
                   all_manifest_paths, filtered_paths, stable_path, beta_path,
                   nightly_path, manifests_to_parse, results,
                   unique_versions_to_insert, next_insert>>
    /\ UNCHANGED response

\* the server publishes the next line of manifests.txt
Publish ==
    /\ pc = "idle"
    /\ published < Len(Publications)
    /\ published' = published + 1
    /\ UNCHANGED <<pc, runs, rev, dbExists, db, conn, is_new_db, force_update, number,
                   all_manifest_paths, filtered_paths, stable_path, beta_path,
                   nightly_path, manifests_to_parse, results,
                   unique_versions_to_insert, next_insert, hist>>
    /\ UNCHANGED response

\* the server republishes the nightly pointer in place, between two runs or
\* between the batch's fetch of it and the flag update's
RepublishNightly ==
    /\ pc \in {"idle", "flags"}
    /\ rev < MaxRev
    /\ rev' = rev + 1
    /\ UNCHANGED <<pc, runs, published, dbExists, db, conn, is_new_db, force_update,
                   number, all_manifest_paths, filtered_paths, stable_path, beta_path,
                   nightly_path, manifests_to_parse, results,
                   unique_versions_to_insert, next_insert, hist>>
    /\ UNCHANGED response

Next ==
    \/ StartRun
    \/ FetchManifestListFails
    \/ \E i \in 1..Len(results) : ParseWorker(i)
    \/ Prepare
    \/ DeleteNightly
    \/ DeleteNightlyFails
    \/ InsertVersion
    \/ SetChannelFlags
    \/ SetChannelFlagsFails
    \/ Commit
    \/ CommitFails
    \/ Publish
    \/ RepublishNightly

Spec == Init /\ [][Next]_vars

----------------------------------------------------------------------------
(* The Manifest Filter alone, on every short manifest list                 *)

MaxLen == 4        \* longest manifest list given to the filter

\* the file names of the lines of manifests.txt
FilterNames ==
    {"channel-rust-1.8.0.toml", "channel-rust-1.8.0-beta.2.toml",
     "channel-rust-1.8.0-beta.toml", "channel-rust-1.49.0.toml",
     "channel-rust-1.9.0.toml", "channel-rust-stable.toml",
     "channel-rust-beta.toml", "channel-rust-nightly.toml"}

\* the directory of the i-th line: every publication has a directory of its own
FilterDirs == <<"dist/a/", "dist/b/", "dist/c/", "dist/d/", "dist/e/", "dist/f/">>

FilterLists ==
    UNION {{[i \in 1..n |-> FilterDirs[i] \o names[i]] :
               names \in [1..n -> FilterNames]} : n \in 0..MaxLen}

\* main() has fetched a manifest list
FilterInit ==
    /\ pc = "filter"
    /\ all_manifest_paths \in FilterLists
    /\ runs = 0
    /\ published = 0
    /\ rev = 0
    /\ dbExists = FALSE
    /\ db = EmptyDb
    /\ conn = Closed
    /\ is_new_db = FALSE
    /\ force_update = FALSE
    /\ number = 0
    /\ filtered_paths = <<>>
    /\ stable_path = None
    /\ beta_path = None
    /\ nightly_path = None
    /\ manifests_to_parse = <<>>
    /\ results = <<>>
    /\ unique_versions_to_insert = <<>>
    /\ next_insert = 0
    /\ response = None
    /\ hist = NewHist

\* lines 517-519: filter the fetched list
FilterManifests ==
    /\ pc = "filter"
    /\ \E f \in {filter_and_sort_manifests(all_manifest_paths)} :
          /\ filtered_paths' = f.processed_manifests
          /\ stable_path' = f.latest_stable
          /\ beta_path' = f.latest_beta
          /\ nightly_path' = f.latest_nightly
    /\ pc' = "filtered"
    /\ UNCHANGED <<runs, published, rev, dbExists, db, conn, is_new_db, force_update,
                   number, all_manifest_paths, manifests_to_parse, results,
                   unique_versions_to_insert, next_insert, hist>>
    /\ UNCHANGED response

FilterNext == FilterManifests

FilterSpec == FilterInit /\ [][FilterNext]_vars

----------------------------------------------------------------------------
(* parse_manifest on its own: one call on one fetched document             *)

\* the values a key of a target table takes: absent, or a string
UrlValues(v) == {None, v}

\* the pkg.<comp>.target.<name> tables: every choice of the four keys present
TargetEntries(name) ==
    {[name |-> name, url |-> u, hash |-> h, xz_url |-> xu, xz_hash |-> xh] :
        u \in UrlValues("u-" \o name), h \in UrlValues("h-" \o name),
        xu \in UrlValues("xu-" \o name), xh \in UrlValues("xh-" \o name)}

\* the tables with the plain keys only
PlainEntries(name) == {t \in TargetEntries(name) : t.xz_url = None /\ t.xz_hash = None}

\* decoded documents: a rustc package with two targets and a cargo package
\* with one; the date or the rustc version may be missing
ParseDocs ==
    {[date |-> d,
      pkg |-> <<[name |-> "rustc", version |-> v, git_commit_hash |-> None,
                 target |-> <<t1, t2>>],
                [name |-> "cargo", version |-> "0.9.0", git_commit_hash |-> None,
                 target |-> <<t3>>]>>,
      artifacts |-> <<Installer("installer-msi", "rust-x86_64.msi")>>,
      profiles |-> <<>>, renames |-> <<>>] :
        d \in {"2016-04-14", None},
        v \in {"1.8.0 (db2939409 2016-04-11)", None},
        t1 \in TargetEntries("x86_64-unknown-linux-gnu"),
        t2 \in TargetEntries("aarch64-unknown-linux-gnu"),
        t3 \in PlainEntries("x86_64-unknown-linux-gnu")}

\* lines 198-203: the document is fetched and decoded
ParseInit ==
    /\ pc = "fetched"
    /\ response \in ParseDocs \cup {NotToml}
    /\ manifests_to_parse = <<"dist/a/channel-rust-1.8.0.toml">>
    /\ results = <<Pending>>
    /\ runs = 0
    /\ published = 0
    /\ rev = 0
    /\ dbExists = FALSE
    /\ db = EmptyDb
    /\ conn = Closed
    /\ is_new_db = FALSE
    /\ force_update = FALSE
    /\ number = 0
    /\ all_manifest_paths = <<>>
    /\ filtered_paths = <<>>
    /\ stable_path = None
    /\ beta_path = None
    /\ nightly_path = None
    /\ unique_versions_to_insert = <<>>
    /\ next_insert = 0
    /\ hist = NewHist

\* lines 204-322: the rest of parse_manifest
ParseManifest ==
    /\ pc = "fetched"
    /\ results' = <<parse_manifest(manifests_to_parse[1], response)>>
    /\ pc' = "parsed"
    /\ UNCHANGED <<runs, published, rev, dbExists, db, conn, is_new_db, force_update,
                   number, all_manifest_paths, filtered_paths, stable_path, beta_path,
                   nightly_path, manifests_to_parse, unique_versions_to_insert,
                   next_insert, response, hist>>

ParseNext == ParseManifest

ParseSpec == ParseInit /\ [][ParseNext]_vars

----------------------------------------------------------------------------
(* get_versions_to_process on its own: one call on one list and one store  *)

MaxTracked == 3    \* longest list given to the planner

\* paths with a release version, with a beta version, two paths of one
\* version, an old stable pointer and a path version_pattern does not match
PlannerPaths ==
    {"dist/a/channel-rust-1.8.0.toml", "dist/b/channel-rust-1.41.0-beta.3.toml",
     "dist/c/channel-rust-1.41.0.toml", "dist/d/channel-rust-stable.toml",
     "dist/e/rust-1.9.0.toml", "dist/f/channel-rust-1.8.0.toml"}

PlannerLists == UNION {[1..n -> PlannerPaths] : n \in 0..MaxTracked}

PlannerVersions == {"1.8.0", "1.41.0-beta.3", "1.41.0"}

\* the stores that hold some of the versions
PlannerStores ==
    {[EmptyDb EXCEPT !.rust_versions =
         {[version |-> v, release_date |-> "2016-04-14", latest_stable |-> 0,
           latest_beta |-> 0, latest_nightly |-> 0] : v \in held}] :
        held \in SUBSET PlannerVersions}

\* main() is at line 531 with an open connection to a store that existed
PlannerInit ==
    /\ pc = "plan"
    /\ filtered_paths \in PlannerLists
    /\ db \in PlannerStores
    /\ conn = db
    /\ dbExists = TRUE
    /\ is_new_db = FALSE
    /\ force_update = FALSE
    /\ runs = 0
    /\ published = 0
    /\ rev = 0
    /\ number = 0
    /\ all_manifest_paths = <<>>
    /\ stable_path = None
    /\ beta_path = None
    /\ nightly_path = None
    /\ manifests_to_parse = <<>>
    /\ results = <<>>
    /\ unique_versions_to_insert = <<>>
    /\ next_insert = 0
    /\ response = None
    /\ hist = NewHist

\* lines 531-533: the planner chooses the candidates
PlanManifests ==
    /\ pc = "plan"
    /\ manifests_to_parse' = get_versions_to_process(filtered_paths, conn)
    /\ hist' = LogPlan(hist, filtered_paths, is_new_db, force_update)
    /\ pc' = "planned"
    /\ UNCHANGED <<runs, published, rev, dbExists, db, conn, is_new_db, force_update,
                   number, all_manifest_paths, filtered_paths, stable_path, beta_path,
                   nightly_path, results, unique_versions_to_insert, next_insert,
                   response>>

PlannerNext == PlanManifests

PlannerSpec == PlannerInit /\ [][PlannerNext]_vars

----------------------------------------------------------------------------
(* The flag update on its own: one update on one store                     *)

FlagVersions == {"1.8.0", "1.41.0", "1.41.0-beta.3", NightlyVersion(0)}

\* the stores that hold some of the versions, every row with any flags
FlagStores ==
    {[EmptyDb EXCEPT !.rust_versions =
         {[version |-> v, release_date |-> "2016-04-14", latest_stable |-> f[v][1],
           latest_beta |-> f[v][2], latest_nightly |-> f[v][3]] : v \in held}] :
        held \in SUBSET FlagVersions,
        f \in [FlagVersions -> [1..3 -> {0, 1}]]}

\* main() is at line 656: the insertions are done, the pointers are those the
\* filter returned
FlagInit ==
    /\ pc = "flags"
    /\ db \in FlagStores
    /\ conn = db
    /\ stable_path \in {None, "dist/a/channel-rust-stable.toml",
                        "dist/c/channel-rust-stable.toml"}
    /\ beta_path \in {None, "dist/b/channel-rust-beta.toml"}
    /\ nightly_path \in {None, "dist/c/channel-rust-nightly.toml"}
    /\ dbExists = TRUE
    /\ is_new_db = FALSE
    /\ force_update = FALSE
    /\ runs = 0
    /\ published = Len(Publications)
    /\ rev = 0
    /\ number = 0
    /\ all_manifest_paths = <<>>
    /\ filtered_paths = <<>>
    /\ manifests_to_parse = <<>>
    /\ results = <<>>
    /\ unique_versions_to_insert = <<>>
    /\ next_insert = 0
    /\ response = None
    /\ hist = NewHist

FlagNext == SetChannelFlags

FlagSpec == FlagInit /\ [][FlagNext]_vars

----------------------------------------------------------------------------
(* sq.insert_rust_version on its own: one Release into one store           *)

InsertVersions == {"1.8.0", "1.31.1", "1.32.0", "1.41.0-beta.3"}

\* a component with one target
InsertComponent(name, version) ==
    [name |-> name, version |-> "cv", rust_version |-> version, git_commit |-> None,
     targets |-> <<[name |-> "x86_64-unknown-linux-gnu", url |-> "u-" \o name,
                    hash |-> "h-" \o name]>>]

\* what [profiles] may say of one profile: nothing, an empty list, or a list
\* of components the release has or lacks
ProfileChoices(name) ==
    {<<>>} \cup
    {<<[name |-> name, components |-> cs]>> :
        cs \in {<<>>, <<"rustc">>, <<"rustc", "cargo">>, <<"clippy">>}}

InsertReleases ==
    {[version |-> v, release_date |-> "2020-01-30",
      manifest_url |-> "https://dist/a/channel-rust-" \o v \o ".toml",
      components |-> <<InsertComponent("rustc", v), InsertComponent("cargo", v)>>,
      profiles |-> pc1 \o pc2 \o pc3 \o extra, renames |-> <<>>, artefacts |-> <<>>,
      latest_stable |-> FALSE, latest_beta |-> FALSE, latest_nightly |-> FALSE] :
        v \in InsertVersions,
        pc1 \in ProfileChoices("complete"), pc2 \in ProfileChoices("default"),
        pc3 \in ProfileChoices("minimal"), extra \in ProfileChoices("extra")}

\* the release the store may hold already: same component names, other flags
StoredRelease ==
    [version |-> "1.40.0", release_date |-> "2019-12-19",
     manifest_url |-> "https://dist/a/channel-rust-1.40.0.toml",
     components |-> <<InsertComponent("rustc", "1.40.0"),
                      InsertComponent("cargo", "1.40.0")>>,
     profiles |-> <<[name |-> "default", components |-> <<"rustc">>]>>,
     renames |-> <<>>, artefacts |-> <<>>,
     latest_stable |-> FALSE, latest_beta |-> FALSE, latest_nightly |-> FALSE]

InsertStores == {EmptyDb, insert_rust_version(EmptyDb, StoredRelease).db}

\* main() is at line 637 with one Release to insert
InsertInit ==
    /\ pc = "insert"
    /\ unique_versions_to_insert \in {<<r>> : r \in InsertReleases}
    /\ next_insert = 1
    /\ db \in InsertStores
    /\ conn = db
    /\ dbExists = TRUE
    /\ is_new_db = FALSE
    /\ force_update = FALSE
    /\ runs = 0
    /\ published = 0
    /\ rev = 0
    /\ number = 0
    /\ all_manifest_paths = <<>>
    /\ filtered_paths = <<>>
    /\ stable_path = None
    /\ beta_path = None
    /\ nightly_path = None
    /\ manifests_to_parse = <<>>
    /\ results = <<>>
    /\ response = None
    /\ hist = NewHist

InsertNext == InsertVersion

InsertSpec == InsertInit /\ [][InsertNext]_vars

----------------------------------------------------------------------------
(* What the store holds, without the surrogate row ids                     *)

\* the components, targets and artefacts stored for release v
ReleaseContent(d, v) ==
    [release_date |-> {r.release_date : r \in {x \in d.rust_versions : x.version = v}},
     components |->
        {[name |-> c.name, version |-> c.version, git_commit |-> c.git_commit,
          profile_complete |-> c.profile_complete,
          profile_default |-> c.profile_default,
          profile_minimal |-> c.profile_minimal,
          targets |-> {[name |-> t.name, url |-> t.url, hash |-> t.hash] :
                          t \in {x \in d.targets : x.component_id = c.id}}] :
            c \in {x \in d.components : x.rust_version = v}},
     artefacts |->
        {[type |-> a.type, target |-> a.target, url |-> a.url, hash |-> a.hash] :
            a \in {x \in d.artefacts : x.rust_version = v}}]

\* what a complete insertion of a parsed Release stores
FullContent(rust) == ReleaseContent(insert_rust_version(EmptyDb, rust).db, rust.version)

\* the releases with their flags and their content
Content(d) ==
    {[row |-> r, content |-> ReleaseContent(d, r.version)] : r \in d.rust_versions}

FlaggedStable(d)  == {r.version : r \in {x \in d.rust_versions : x.latest_stable = 1}}
FlaggedBeta(d)    == {r.version : r \in {x \in d.rust_versions : x.latest_beta = 1}}
FlaggedNightly(d) == {r.version : r \in {x \in d.rust_versions : x.latest_nightly = 1}}

RunEnded == pc = "idle" /\ runs > 0

----------------------------------------------------------------------------
(* Properties                                                              *)

\* C1: in every committed state at most one release has latest_nightly, at
\* most one has latest_stable and at most one has latest_beta.
C1_AtMostOnePerChannel ==
    /\ Cardinality(FlaggedNightly(db)) <= 1
    /\ Cardinality(FlaggedStable(db)) <= 1
    /\ Cardinality(FlaggedBeta(db)) <= 1

\* a committed store in which the stable pointer has moved on: the release
\* that was stable is stored beside the one that is
C1_Witness ==
    /\ FlaggedStable(db) = {"1.41.0"}
    /\ "1.8.0" \in StoredVersions(db)
    /\ Cardinality(FlaggedNightly(db)) = 1
    /\ Cardinality(FlaggedBeta(db)) = 1

\* C2: every stored release is stored with all the components, targets and
\* artefacts of a Release it was parsed from.
C2_NoPartialRelease ==
    \A v \in StoredVersions(db) :
        \E rust \in AllParsed : rust.version = v /\ ReleaseContent(db, v) = FullContent(rust)

\* C3: a run that ends in a rollback (the delete, the flag update or the
\* commit raised) leaves the file as it was when the run began.
C3_RollbackRestores ==
    (RunEnded /\ hist.run.outcome = "rolled_back") => db = hist.before

\* a rollback that discarded changes of a store that held releases
C3_Witness ==
    /\ RunEnded
    /\ hist.run.outcome = "rolled_back"
    /\ hist.dirty
    /\ db.rust_versions # {}

\* C4: a release that was stored and not flagged latest_nightly when a run
\* began is stored, with the same content, whatever the run did since.
C4_RecordedReleasesKept ==
    \A r \in hist.before.rust_versions :
        r.latest_nightly = 0 =>
            /\ r.version \in StoredVersions(db)
            /\ ReleaseContent(db, r.version) = ReleaseContent(hist.before, r.version)

\* a committed run that deleted the nightly it found and kept the other release
C4_Witness ==
    /\ RunEnded
    /\ hist.run.outcome = "committed"
    /\ \E r \in hist.before.rust_versions : r.latest_nightly = 0
    /\ \E r \in hist.before.rust_versions :
          r.latest_nightly = 1 /\ r.version \notin StoredVersions(db)

\* C9: every component and artefact row references a stored release and
\* every target row a stored component, in the file and in the transaction.
RefIntegrity(d) ==
    /\ \A c \in d.components : c.rust_version \in StoredVersions(d)
    /\ \A a \in d.artefacts : a.rust_version \in StoredVersions(d)
    /\ \A t \in d.targets : \E c \in d.components : c.id = t.component_id

C9_ReferentialIntegrity ==
    /\ RefIntegrity(db)
    /\ conn # Closed => RefIntegrity(conn)

\* the transaction right after delete_nightly removed a release that had
\* components, targets and artefacts
C9_Witness ==
    /\ pc = "insert"
    /\ next_insert = 1
    /\ \E v \in FlaggedNightly(db) :
          /\ v \notin StoredVersions(conn)
          /\ ReleaseContent(db, v).components # {}
          /\ ReleaseContent(db, v).artefacts # {}
          /\ \E c \in ReleaseContent(db, v).components : c.targets # {}

\* the server held the same list and the same nightly revision from the
\* beginning of the previous run to the end of the last one
SameUpstream ==
    /\ hist.prev.published = hist.run.published
    /\ hist.prev.rev = hist.run.rev1

C6_SecondPlanEmpty ==
    (RunEnded /\ hist.run.outcome = "committed" /\ hist.run.ok /\ hist.run.number = 0)
        => get_versions_to_process(filtered_paths, db) = <<>>

\* the version the pointer at path holds during the last run, which did not
\* see it republished
PointerHeld(path) ==
    IF path = None \/ hist.run.rev # hist.run.rev1 THEN None
    ELSE IF ParsedAt[path][hist.run.rev] = NoRelease THEN None
    ELSE ParsedAt[path][hist.run.rev].version

\* the last run committed with every fetch succeeding, on a store a
\* committed run had left
SecondRunCommitted ==
    /\ RunEnded
    /\ hist.run.outcome = "committed"
    /\ hist.run.ok
    /\ hist.prev.outcome = "committed"

\* C7 as stated: on a store with S flagged stable and N1 flagged nightly, a
\* committed run that found the nightly pointer at another version N2 leaves
\* N1 absent, N2 stored and alone flagged nightly, and S flagged stable.
C7_NightlyReplacedAnyStable ==
    SecondRunCommitted =>
        \A S \in FlaggedStable(hist.before), N1 \in FlaggedNightly(hist.before) :
            \A N2 \in {PointerHeld(nightly_path)} \ {None, N1} :
                /\ N1 \notin StoredVersions(db)
                /\ N2 \in StoredVersions(db)
                /\ FlaggedNightly(db) = {N2}
                /\ S \in FlaggedStable(db)

\* C7: the same when the stable pointer still holds S during the run.
C7_NightlyReplaced ==
    SecondRunCommitted =>
        \A S \in FlaggedStable(hist.before), N1 \in FlaggedNightly(hist.before) :
            \A N2 \in {PointerHeld(nightly_path)} \ {None, N1} :
                PointerHeld(stable_path) = S =>
                    /\ N1 \notin StoredVersions(db)
                    /\ N2 \in StoredVersions(db)
                    /\ FlaggedNightly(db) = {N2}
                    /\ S \in FlaggedStable(db)

\* the run replaced 1.42.0-nightly by 1.43.0-nightly beside the stable 1.8.0
C7_Witness ==
    /\ SecondRunCommitted
    /\ FlaggedStable(hist.before) = {"1.8.0"}
    /\ FlaggedNightly(hist.before) = {"1.42.0-nightly"}
    /\ PointerHeld(nightly_path) = "1.43.0-nightly"
    /\ PointerHeld(stable_path) = "1.8.0"
    /\ FlaggedNightly(db) = {"1.43.0-nightly"}

\* C8: a channel flag that was on exactly one release when a committed run
\* began is on exactly one release when it has committed.
C8_FlagStaysOnOne ==
    (RunEnded /\ hist.run.outcome = "committed") =>
        /\ Cardinality(FlaggedStable(hist.before)) = 1
              => Cardinality(FlaggedStable(db)) = 1
        /\ Cardinality(FlaggedBeta(hist.before)) = 1
              => Cardinality(FlaggedBeta(db)) = 1
        /\ Cardinality(FlaggedNightly(hist.before)) = 1
              => Cardinality(FlaggedNightly(db)) = 1

\* C10: when a manifest list names a known-duplicate version on several
\* lines, the tracked list holds the last of these lines and no other.
C10_NewestDuplicateKept ==
    pc = "filtered" =>
        \A v \in versions_to_deduplicate :
            LET lines == {i \in 1..Len(all_manifest_paths) :
                             PathVersion(all_manifest_paths[i]) = v}
            IN  Cardinality(lines) >= 2 =>
                    SelectSeq(filtered_paths, LAMBDA p : PathVersion(p) = v)
                        = <<all_manifest_paths[Max(lines)]>>

\* C11: no path that holds "beta" without a "beta.<digit>" is in the tracked
\* list, whatever the manifest list is.
C11_NoUnnumberedBeta ==
    pc = "filtered" =>
        \A i \in 1..Len(filtered_paths) :
            LET p == filtered_paths[i]
            IN  (\E j \in 1..Len(p) : MatchAt(p, j, "beta"))
                    => \E j \in 1..Len(p) :
                           MatchAt(p, j, "beta.") /\ CharAt(p, j + 5) \in Digits

\* a list with an unnumbered versioned beta and an older beta pointer, none
\* of them the latest pointer, and a tracked list that is not empty
C11_Witness ==
    /\ pc = "filtered"
    /\ \E i \in 1..Len(all_manifest_paths) :
          Contains(all_manifest_paths[i], "channel-rust-1.8.0-beta.toml")
    /\ \E i \in 1..Len(all_manifest_paths) :
          /\ Contains(all_manifest_paths[i], "channel-rust-beta.toml")
          /\ all_manifest_paths[i] # beta_path
    /\ filtered_paths # <<>>

\* C12: every path of the manifest list with a numbered beta suffix that is
\* neither a nightly nor a pointer is in the tracked list.
C12_NumberedBetaKept ==
    pc = "filtered" =>
        \A i \in 1..Len(all_manifest_paths) :
            LET p == all_manifest_paths[i]
            IN  (/\ \E j \in 1..Len(p) :
                       MatchAt(p, j, "-beta.") /\ CharAt(p, j + 6) \in Digits
                 /\ ~Contains(p, "channel-rust-nightly.toml")
                 /\ p \notin {stable_path, beta_path, nightly_path})
                    => p \in Range(filtered_paths)

\* C13: no path naming a channel pointer document is in the tracked list, and
\* none of the three returned pointers is.
C13_NoPointerTracked ==
    pc = "filtered" =>
        \A i \in 1..Len(filtered_paths) :
            LET p == filtered_paths[i]
            IN  /\ ~Contains(p, "channel-rust-stable.toml")
                /\ ~Contains(p, "channel-rust-beta.toml")
                /\ ~Contains(p, "channel-rust-nightly.toml")
                /\ p \notin {stable_path, beta_path, nightly_path}

\* the Targets the parsed Release holds for a component and a platform
TargetsOf(release, comp, name) ==
    {t \in UNION {Range(c.targets) : c \in {x \in Range(release.components) : x.name = comp}} :
        t.name = name}

\* a target table with a URL and no hash, or a hash and no URL
HalfEntry(t) ==
    \/ (t.url # None \/ t.xz_url # None) /\ t.hash = None /\ t.xz_hash = None
    \/ (t.hash # None \/ t.xz_hash # None) /\ t.url = None /\ t.xz_url = None

\* C14: a target entry with a URL and no hash (or a hash and no URL) gives no
\* Target for that platform and never makes the parse fail: the document is a
\* parse failure only when it is no TOML or lacks the date or the rustc
\* version, and every entry with a whole pair of keys still gives its Target.
C14_HalfTargetSkipped ==
    pc = "parsed" =>
        /\ results[1] = NoRelease
              <=> (response = NotToml \/ response.date = None
                   \/ RustcVersionString(response) = None)
        /\ results[1] # NoRelease =>
              \A i \in 1..Len(response.pkg) : \A j \in 1..Len(response.pkg[i].target) :
                 LET c == response.pkg[i]
                     t == c.target[j]
                     got == TargetsOf(results[1], c.name, t.name)
                 IN  /\ HalfEntry(t) => got = {}
                     /\ t.xz_url # None /\ t.xz_hash # None
                           => got = {[name |-> t.name, url |-> t.xz_url, hash |-> t.xz_hash]}
                     /\ t.xz_url = None /\ t.xz_hash = None /\ t.url # None /\ t.hash # None
                           => got = {[name |-> t.name, url |-> t.url, hash |-> t.hash]}

\* a document whose rustc package has a target with a URL and no hash and a
\* whole target has been parsed to a Release with the whole target only
C14_Witness ==
    /\ pc = "parsed"
    /\ results[1] # NoRelease
    /\ response.pkg[1].target[1].url # None
    /\ response.pkg[1].target[1].hash = None
    /\ response.pkg[1].target[1].xz_url = None
    /\ response.pkg[1].target[1].xz_hash = None
    /\ Len(results[1].components) = 2
    /\ Len(results[1].components[1].targets) = 1
    /\ results[1].components[1].targets[1].name = "aarch64-unknown-linux-gnu"

\* the positions of the batch whose fetch and parse did not fail
Survivors == SelectSeq([i \in 1..Len(results) |-> i], LAMBDA i : results[i] # NoRelease)

\* the batch of the run without its failed manifests, parsed on its own
ParsedWithoutFailed ==
    [k \in 1..Len(Survivors) |-> ParsedAt[manifests_to_parse[Survivors[k]]][hist.run.rev]]

\* C15: a manifest of the batch that fails leaves the others alone: every
\* other manifest is parsed to what it parses to on its own, the releases to
\* insert are those of the batch without the failed manifests, and the run
\* returns after parsing only when no manifest of the batch parsed.
C15_FailedManifestIsolated ==
    /\ pc # "idle" =>
          \A i \in 1..Len(results) :
              results[i] \notin {Pending, NoRelease}
                  => results[i] = ParsedAt[manifests_to_parse[i]][hist.run.rev]
    /\ pc \in {"delete", "insert", "flags", "commit"} =>
          /\ \A i \in 1..Len(results) : results[i] # Pending
          /\ unique_versions_to_insert = Deduplicate(ParsedWithoutFailed, <<>>)
    /\ pc = "idle" /\ hist.run.outcome = "returned" =>
          \A i \in 1..Len(results) : results[i] = NoRelease

\* one manifest of a batch of three failed and the run went on to insert the
\* releases of the other two
C15_Witness ==
    /\ pc = "commit"
    /\ Len(results) = 3
    /\ results[2] = NoRelease
    /\ Len(unique_versions_to_insert) = 2
    /\ \A i \in 1..2 :
          \E r \in conn.rust_versions : r.version = unique_versions_to_insert[i].version

\* the releases of the batch the insertion loop has gone past
Processed ==
    IF pc = "insert" THEN next_insert - 1 ELSE Len(unique_versions_to_insert)

\* C16: when the insertion of one release of the batch raises, the loop goes
\* on: every release of the batch whose own insertion did not raise is stored
\* with all its components, targets and artefacts, and the loop ends at the
\* flag update with every release of the batch gone through.
C16_InsertionFailureIsolated ==
    pc \in {"insert", "flags", "commit"} =>
        /\ \A k \in 1..Processed :
              LET rv == unique_versions_to_insert[k]
              IN  rv.version \notin hist.raised
                      => /\ rv.version \in StoredVersions(conn)
                         /\ ReleaseContent(conn, rv.version) = FullContent(rv)
        /\ hist.raised \subseteq
              {unique_versions_to_insert[k].version : k \in 1..Processed}
        /\ pc \in {"flags", "commit"} => next_insert = Len(unique_versions_to_insert) + 1

\* the insertion of one release raised, a release after it in the batch is
\* stored in full, and the run is at its commit
C16_Witness ==
    /\ pc = "commit"
    /\ \E j, k \in 1..Len(unique_versions_to_insert) :
          /\ j < k
          /\ unique_versions_to_insert[j].version \in hist.raised
          /\ unique_versions_to_insert[k].version \notin hist.raised
          /\ ReleaseContent(conn, unique_versions_to_insert[k].version)
                = FullContent(unique_versions_to_insert[k])

\* C17: when the filter gives a nightly pointer, the parse batch of the run
\* holds it, in planned, forced and fresh runs and under every --number > 0.
C17_NightlyInBatch ==
    nightly_path # None =>
        \E i \in 1..Len(manifests_to_parse) : manifests_to_parse[i] = nightly_path

\* a planned run limited to one manifest whose plan is not empty: the batch
\* is the nightly pointer alone
C17_Witness ==
    /\ pc = "parse"
    /\ ~force_update /\ ~is_new_db
    /\ number = 1
    /\ get_versions_to_process(filtered_paths, db) # <<>>
    /\ nightly_path # None
    /\ manifests_to_parse = <<nightly_path>>

\* the first position of path p in the list
FirstIndex(paths, p) == Min({i \in 1..Len(paths) : paths[i] = p})

\* C18: the plan of a planned run on an existing store is the tracked paths
\* whose version is not stored, each once and in the order of the tracked
\* list; a path without a version is not in the plan and is warned about.
C18_PlanIsMissingVersions ==
    pc = "planned" =>
        /\ Range(manifests_to_parse)
              = {p \in Range(filtered_paths) :
                    PathVersion(p) # None /\ PathVersion(p) \notin StoredVersions(conn)}
        /\ \A i, j \in 1..Len(manifests_to_parse) :
              i < j => FirstIndex(filtered_paths, manifests_to_parse[i])
                          < FirstIndex(filtered_paths, manifests_to_parse[j])
        /\ \A p \in Range(filtered_paths) :
              PathVersion(p) = None
                  => p \notin Range(manifests_to_parse) /\ p \in hist.warned

\* the store holds 1.41.0 only; of a path without a version, the path of
\* 1.41.0 and the path of 1.8.0 the plan is the path of 1.8.0
C18_Witness ==
    /\ pc = "planned"
    /\ filtered_paths = <<"dist/e/rust-1.9.0.toml", "dist/c/channel-rust-1.41.0.toml",
                          "dist/a/channel-rust-1.8.0.toml">>
    /\ StoredVersions(conn) = {"1.41.0"}
    /\ manifests_to_parse = <<"dist/a/channel-rust-1.8.0.toml">>
    /\ hist.warned = {"dist/e/rust-1.9.0.toml"}

\* the tracked list behind the nightly pointer, cut to --number entries
WholeTrackedBatch ==
    LET whole == IF nightly_path # None THEN <<nightly_path>> \o filtered_paths
                 ELSE filtered_paths
    IN  IF number > 0 /\ number < Len(whole) THEN SubSeq(whole, 1, number) ELSE whole

\* C19: in a forced run and in a run on a fresh store the candidates are the
\* whole tracked list, whatever the store holds, and the run does not read
\* the stored versions to choose them.
C19_ForceAndFreshTakeAll ==
    force_update \/ is_new_db =>
        /\ manifests_to_parse = WholeTrackedBatch
        /\ ~hist.queried
        /\ hist.warned = {}

\* a forced, unlimited run on a store that holds a tracked version: the path
\* of the stored version is in the batch
C19_Witness ==
    /\ pc = "parse"
    /\ force_update /\ ~is_new_db
    /\ number = 0
    /\ \E i \in 1..Len(filtered_paths) :
          /\ PathVersion(filtered_paths[i]) \in StoredVersions(db)
          /\ filtered_paths[i] \in Range(manifests_to_parse)

\* the stored versions equal to the version the update was given for a channel
Matching(d, version) == {v \in StoredVersions(d) : version # None /\ v = version}

\* the version a pointer can have given the update: its document's, or none
\* when there is no pointer or its fetch failed
PointerChoices(path) ==
    IF path = None THEN {None}
    ELSE {None} \cup {r.version : r \in {ParsedAt[path][rev]} \ {NoRelease}}

\* C20: after the flag update each channel's flag is set on the stored release
\* whose version is the one parsed from the channel's pointer and on no other
\* release, whatever the flags were before.
C20_FlagsReasserted ==
    pc = "commit" =>
        /\ hist.pointers.stable \in PointerChoices(stable_path)
        /\ hist.pointers.beta \in PointerChoices(beta_path)
        /\ hist.pointers.nightly \in PointerChoices(nightly_path)
        /\ FlaggedStable(conn) = Matching(conn, hist.pointers.stable)
        /\ FlaggedBeta(conn) = Matching(conn, hist.pointers.beta)
        /\ FlaggedNightly(conn) = Matching(conn, hist.pointers.nightly)
        /\ StoredVersions(conn) = StoredVersions(db)

\* the store had two releases flagged stable and an unflagged 1.41.0; after
\* the update with the stable pointer of 1.41.0 that release alone is flagged
C20_Witness ==
    /\ pc = "commit"
    /\ FlaggedStable(db) = {"1.8.0", "1.41.0-beta.3"}
    /\ FlaggedNightly(db) = {"1.8.0"}
    /\ "1.41.0" \in StoredVersions(db)
    /\ hist.pointers.stable = "1.41.0"
    /\ hist.pointers.nightly = None
    /\ FlaggedStable(conn) = {"1.41.0"}
    /\ FlaggedNightly(conn) = {}

\* C21: a run ends with status zero when it committed or returned with at
\* most per-manifest and per-release failures, and with a non-zero status when
\* the manifest list could not be fetched or the delete, the flag update or
\* the commit failed and the run rolled back.
C21_ExitStatus ==
    RunEnded =>
        /\ hist.run.outcome \in {"committed", "returned"} => hist.run.status = 0
        /\ hist.run.outcome \in {"exited", "rolled_back"} => hist.run.status # 0

\* the candidates of the run that is parsing: the tracked list in a forced or
\* fresh run, the plan otherwise
Candidates ==
    IF force_update \/ is_new_db THEN filtered_paths
    ELSE get_versions_to_process(filtered_paths, db)

\* the first n entries of a list
FirstN(paths, n) == SubSeq(paths, 1, IF n < Len(paths) THEN n ELSE Len(paths))

\* C22: with --number N > 0 the batch is the nightly pointer, which is not
\* counted, and the first N candidates.
C22_NumberExcludesNightly ==
    pc = "parse" /\ number > 0 =>
        manifests_to_parse
            = (IF nightly_path # None THEN <<nightly_path>> ELSE <<>>)
                 \o FirstN(Candidates, number)

\* the versions the manifests of the last batch parsed to
ProcessedVersions ==
    {results[i].version : i \in {j \in 1..Len(results) : results[j] \notin {Pending, NoRelease}}}

\* C23: a release whose version was stored when a run began and whose version
\* a manifest of the run's batch parsed to is stored once after the run, with
\* the release date, components, targets and artefacts it had.
C23_StoredReleaseNotMutated ==
    RunEnded /\ hist.run.outcome \in {"committed", "rolled_back", "returned"} =>
        \A v \in StoredVersions(hist.before) \cap ProcessedVersions :
            /\ Cardinality({r \in db.rust_versions : r.version = v}) = 1
            /\ ReleaseContent(db, v) = ReleaseContent(hist.before, v)

\* the insertion loop over a list of releases
RECURSIVE InsertAll(_, _)
InsertAll(d, releases) ==
    IF releases = <<>> THEN d
    ELSE InsertAll(insert_rust_version(d, Head(releases)).db, Tail(releases))

\* the transaction a run leaves at its commit, computed from the store it
\* began with, the batch in its own order, which manifests failed and what the
\* flag update was given
SequentialStore ==
    LET unique == Deduplicate(ParsedWithoutFailed, <<>>)
        kept   == IF ~is_new_db /\ nightly_obj(unique) # NoRelease
                  THEN delete_nightly(db) ELSE db
    IN  sq_set_rust_channel_flags(InsertAll(kept, unique), hist.pointers.stable,
                                  hist.pointers.beta, hist.pointers.nightly)

\* C24: the order in which the workers finish changes nothing: the releases to
\* insert, the winner of a version collision and the store that is committed
\* are those of the batch taken in its own order with the same manifests failed.
C24_WorkerOrderIrrelevant ==
    pc = "commit" =>
        /\ unique_versions_to_insert = Deduplicate(ParsedWithoutFailed, <<>>)
        /\ conn = SequentialStore

\* a run at its commit in which a later manifest of the batch was parsed
\* before an earlier one and two manifests of the batch held one version
C24_Witness ==
    /\ pc = "commit"
    /\ hist.overtaken
    /\ \E i, j \in 1..Len(results) :
          /\ i < j
          /\ results[i] # NoRelease /\ results[j] # NoRelease
          /\ results[i].version = results[j].version
    /\ conn = SequentialStore

\* the last position of the batch whose manifest parsed to version v
LastOf(v) ==
    Max({i \in 1..Len(results) : results[i] \notin {Pending, NoRelease} /\ results[i].version = v})

\* C25: of the results of one batch that hold the same version the one of the
\* manifest latest in the batch goes to the insertion and no other; every
\* version parsed has its result, and the results are in batch order.
C25_LastDuplicateWins ==
    pc \in {"delete", "insert", "flags", "commit"} =>
        /\ {unique_versions_to_insert[k].version : k \in 1..Len(unique_versions_to_insert)}
              = ProcessedVersions
        /\ \A k \in 1..Len(unique_versions_to_insert) :
              unique_versions_to_insert[k] = results[LastOf(unique_versions_to_insert[k].version)]
        /\ \A k, l \in 1..Len(unique_versions_to_insert) :
              k < l => LastOf(unique_versions_to_insert[k].version)
                          < LastOf(unique_versions_to_insert[l].version)

\* two manifests of the batch parsed to one version and a third to another:
\* the later of the two is the one to insert
C25_Witness ==
    /\ pc = "delete"
    /\ \E i, j \in 1..Len(results) :
          /\ i < j
          /\ results[i] # NoRelease /\ results[j] # NoRelease
          /\ results[i].version = results[j].version
          /\ results[i].manifest_url # results[j].manifest_url
          /\ \E k \in 1..Len(unique_versions_to_insert) :
                unique_versions_to_insert[k] = results[j]
          /\ \A k \in 1..Len(unique_versions_to_insert) :
                unique_versions_to_insert[k] # results[i]
    /\ Len(unique_versions_to_insert) >= 2

\* the versions the deletion step of the running run removed
DeletedByRun == StoredVersions(db) \ StoredVersions(conn)

\* C26: the deletion step of a run removes a release only when the store is
\* not fresh, a nightly was parsed and its version is not the version flagged
\* latest_nightly in the store; otherwise it removes nothing.
C26_DeleteOnlyOnNewNightly ==
    pc = "insert" /\ next_insert = 1 =>
        (DeletedByRun # {}
            => /\ ~is_new_db
               /\ nightly_obj(unique_versions_to_insert) # NoRelease
               /\ nightly_obj(unique_versions_to_insert).version \notin FlaggedNightly(db))

\* the rows of a store without the flags of the releases
Rows(d) ==
    [rust_versions |-> {[version |-> r.version, release_date |-> r.release_date] :
                           r \in d.rust_versions},
     components |-> d.components, targets |-> d.targets, artefacts |-> d.artefacts]

\* rows of a are missing in b
RowsGone(a, b) ==
    \/ ~(Rows(a).rust_versions \subseteq Rows(b).rust_versions)
    \/ \E c \in a.components :
          ~\E x \in b.components : x.id = c.id /\ x.rust_version = c.rust_version
    \/ ~(a.targets \subseteq b.targets)
    \/ ~(a.artefacts \subseteq b.artefacts)

\* the steps of main() in their order
StepOrder ==
    {<<"idle", "parse">>, <<"parse", "idle">>, <<"parse", "delete">>,
     <<"delete", "insert">>, <<"delete", "idle">>, <<"insert", "flags">>,
     <<"flags", "commit">>, <<"flags", "idle">>, <<"commit", "idle">>}

\* one step of a run keeps the order of the writes
OrderedStep ==
    /\ pc' # pc => <<pc, pc'>> \in StepOrder
    /\ db' # db => pc = "commit" /\ db' = conn
    /\ conn # Closed /\ conn' # Closed =>
          /\ RowsGone(conn, conn') => pc = "delete"
          /\ RowsGone(conn', conn) => pc = "insert"
          /\ (\E r \in conn.rust_versions : r \notin conn'.rust_versions)
                /\ ~RowsGone(conn, conn') => pc = "flags" /\ pc' = "commit"

\* C27: in a run the deletion of the old nightly comes before every
\* insertion, every insertion before the one flag update, the flag update
\* before the commit, and nothing reaches the file before the commit.
C27_WriteOrder == [][OrderedStep]_vars

\* a run at its commit that has deleted a release, inserted another and
\* changed a flag, with the file still as it was
C27_Witness ==
    /\ pc = "commit"
    /\ DeletedByRun # {}
    /\ StoredVersions(conn) \ StoredVersions(db) # {}
    /\ FlaggedStable(conn) # FlaggedStable(db)
    /\ db = hist.before

\* every worker of the pool has returned
NoWorkerPending == \A i \in DOMAIN results : results[i] # Pending

\* a step that writes to the open connection or to the file
StoreWritten ==
    \/ conn # Closed /\ conn' # Closed /\ conn' # conn
    \/ db' # db

\* C28: every write to the store (delete, insert, flag update, commit) is a
\* step of main() taken after every parse worker of the batch has returned;
\* a step of a parse worker leaves the connection and the file alone.
C28_NoConcurrentWriters ==
    [][/\ StoreWritten => pc \in {"delete", "insert", "flags", "commit"}
                          /\ NoWorkerPending
       /\ results' # results /\ pc = "parse" /\ pc' = "parse"
             => conn' = conn /\ db' = db]_vars

\* a run that has written to the store after a pool of two or more workers,
\* one of which overtook another, has returned
C28_Witness ==
    /\ pc = "insert"
    /\ next_insert > 1
    /\ conn # db
    /\ Len(results) >= 2
    /\ NoWorkerPending
    /\ hist.overtaken

\* the places of the input whose line is the pointer document of a channel
PointerLines(channel) ==
    {i \in 1..Len(all_manifest_paths) :
        LET path == all_manifest_paths[i]
            name == "/channel-rust-" \o channel \o ".toml"
        IN  /\ Len(path) >= Len(name)
            /\ SubSeq(path, Len(path) - Len(name) + 1, Len(path)) = name}

\* the last pointer line of a channel in the input, None when it has none
LastPointer(channel) ==
    IF PointerLines(channel) = {} THEN None
    ELSE all_manifest_paths[Max(PointerLines(channel))]

\* C29: for each of the three channels the pointer the filter returns is the
\* last line of the oldest-first input that names the channel's pointer
\* document, and None when the input has no such line.
C29_PointersAreLast ==
    pc = "filtered" =>
        /\ stable_path = LastPointer("stable")
        /\ beta_path = LastPointer("beta")
        /\ nightly_path = LastPointer("nightly")

\* a filtered list with two pointer lines of one channel, one of another and
\* none of the third
C29_Witness ==
    /\ pc = "filtered"
    /\ \E a, b, c \in {"stable", "beta", "nightly"} :
          /\ Cardinality(PointerLines(a)) >= 2
          /\ Cardinality(PointerLines(b)) = 1
          /\ PointerLines(c) = {}
          /\ LastPointer(a) = all_manifest_paths[Max(PointerLines(a))]

\* a is b with some of its elements left out
RECURSIVE IsSubsequence(_, _)
IsSubsequence(a, b) ==
    IF a = <<>> THEN TRUE
    ELSE IF b = <<>> THEN FALSE
    ELSE IF Head(a) = Head(b) THEN IsSubsequence(Tail(a), Tail(b))
    ELSE IsSubsequence(a, Tail(b))

\* how often x occurs in s
Occurrences(s, x) == Cardinality({i \in 1..Len(s) : s[i] = x})

\* C30: the tracked output of the filter is newest-first: it is a
\* subsequence of the reversed oldest-first input, every line of it is a line
\* of the input, and no line occurs in it more often than in the input.
C30_TrackedNewestFirst ==
    pc = "filtered" =>
        /\ IsSubsequence(filtered_paths, Reverse(all_manifest_paths))
        /\ Range(filtered_paths) \subseteq Range(all_manifest_paths)
        /\ \A x \in Range(filtered_paths) :
              Occurrences(filtered_paths, x) <= Occurrences(all_manifest_paths, x)

\* a filtered list of two or more lines, with lines of the input left out,
\* whose first line stands after its second in the input
C30_Witness ==
    /\ pc = "filtered"
    /\ Len(filtered_paths) >= 2
    /\ Len(filtered_paths) < Len(all_manifest_paths)
    /\ \E i, j \in 1..Len(all_manifest_paths) :
          /\ i > j
          /\ all_manifest_paths[i] = filtered_paths[1]
          /\ all_manifest_paths[j] = filtered_paths[2]

\* the Targets a target table may give when its URL and hash come from one
\* pair: the compressed pair when the table has it, otherwise the plain pair
WholePairTargets(t) ==
    IF t.xz_url # None /\ t.xz_hash # None
    THEN {[name |-> t.name, url |-> t.xz_url, hash |-> t.xz_hash]}
    ELSE IF t.url # None /\ t.hash # None
    THEN {[name |-> t.name, url |-> t.url, hash |-> t.hash]}
    ELSE {}

\* C31: the URL and the hash of every Target the parser gives come from the
\* same pair of the target table, the compressed pair when the table has it
\* and the plain pair otherwise; no Target joins the URL of one pair with the
\* hash of the other.
C31_TargetFromOnePair ==
    pc = "parsed" /\ results[1] # NoRelease =>
        \A i \in 1..Len(response.pkg) : \A j \in 1..Len(response.pkg[i].target) :
            LET c == response.pkg[i]
                t == c.target[j]
            IN  TargetsOf(results[1], c.name, t.name) \subseteq WholePairTargets(t)

\* the components the store holds for a release
ComponentsOf(d, version) == {c \in d.components : c.rust_version = version}

\* the [profiles] data of a release lists a component in a profile
Listed(rust, profile, name) ==
    \E i \in 1..Len(rust.profiles) :
        rust.profiles[i].name = profile /\ name \in Range(rust.profiles[i].components)

\* the three booleans of a stored component say what the release lists
FlagsAsListed(rust, c) ==
    /\ c.profile_complete = 1 <=> Listed(rust, "complete", c.name)
    /\ c.profile_default = 1 <=> Listed(rust, "default", c.name)
    /\ c.profile_minimal = 1 <=> Listed(rust, "minimal", c.name)

\* the three booleans of a stored component are false
FlagsFalse(c) == c.profile_complete = 0 /\ c.profile_default = 0 /\ c.profile_minimal = 0

\* the insertion of the one Release has returned without raising
Inserted ==
    /\ pc = "flags"
    /\ Len(unique_versions_to_insert) = 1
    /\ unique_versions_to_insert[1].version \notin hist.raised

\* the version of a release is 1.32.0 or later
ProfilesApply(rust) ==
    LET core == SemverCore(BeforeFirst(rust.version, "-"))
    IN  core[1] >= 2 \/ (core[1] = 1 /\ core[2] >= 32)

\* C32 as stated: the components of a release without profile data keep their
\* three booleans false, and after the insertion of a release with profile
\* data each boolean of a component is true exactly when the profile lists
\* the component's name, whatever the version of the release.
C32_ProfileFlagsAnyVersion ==
    Inserted =>
        LET rust == unique_versions_to_insert[1]
        IN  \A c \in ComponentsOf(conn, rust.version) :
                IF rust.profiles = <<>> THEN FlagsFalse(c) ELSE FlagsAsListed(rust, c)

\* C32: the components of a release without profile data, or of a release
\* older than 1.32.0, keep their three booleans false; after the insertion of
\* a release of version 1.32.0 or later with profile data each boolean of a
\* component is true exactly when the profile lists the component's name; the
\* components of the other releases are left as they were.
C32_ProfileFlags ==
    Inserted =>
        LET rust == unique_versions_to_insert[1]
        IN  /\ \A c \in ComponentsOf(conn, rust.version) :
                  IF rust.profiles # <<>> /\ ProfilesApply(rust)
                  THEN FlagsAsListed(rust, c) ELSE FlagsFalse(c)
            /\ ComponentsOf(conn, rust.version) # {}
            /\ db.components \subseteq conn.components

\* a release of a version after 1.32.0 inserted next to a stored release:
\* its rustc is in the default profile only, its cargo in none, and the
\* stored release's cargo is still in no profile
C32_Witness ==
    /\ Inserted
    /\ ProfilesApply(unique_versions_to_insert[1])
    /\ db.components # {}
    /\ \E c \in ComponentsOf(conn, unique_versions_to_insert[1].version) :
          c.name = "rustc" /\ c.profile_default = 1 /\ c.profile_minimal = 0
    /\ \E c \in ComponentsOf(conn, unique_versions_to_insert[1].version) :
          c.name = "cargo" /\ FlagsFalse(c)
    /\ Listed(unique_versions_to_insert[1], "minimal", "clippy")
    /\ \E c \in ComponentsOf(conn, "1.40.0") : c.name = "cargo" /\ FlagsFalse(c)

\* the stored releases that came from a nightly pointer document
NightlyReleases(d) ==
    {r \in d.rust_versions : \E n \in 0..MaxRev : r.version = NightlyVersion(n)}

\* C33: the committed store holds at most one release inserted from the
\* nightly pointer document, and that release is flagged latest_nightly: no
\* stale nightly release without the flag remains, whatever failed before.
C33_OneNightlyRelease ==
    /\ Cardinality(NightlyReleases(db)) <= 1
    /\ \A r \in NightlyReleases(db) : r.latest_nightly = 1

\* the last run has ended at one of the two early returns of main()
ReturnedEarly == pc = "idle" /\ hist.run.outcome = "returned"

\* C34: a run that ends early, with an empty batch or with no document of
\* the batch parsed, commits nothing: the releases, their dependents and the
\* channel flags of the store are what they were before the run.
C34_EarlyReturnKeepsStore ==
    ReturnedEarly => db = hist.before /\ ~hist.dirty /\ conn = Closed

\* a run over a store with a flagged release whose whole batch failed to
\* parse has returned
C34_Witness ==
    /\ ReturnedEarly
    /\ manifests_to_parse # <<>>
    /\ \A i \in 1..Len(results) : results[i] = NoRelease
    /\ FlaggedNightly(db) # {}
    /\ db = hist.before

\* a line the nightly rule, the pointer rule or the unnumbered-beta rule drops
DroppedByOtherRule(path) ==
    \/ Contains(path, "channel-rust-nightly.toml")
    \/ path = stable_path \/ path = beta_path
    \/ Contains(path, "beta") /\ ~HasBetaIteration(path)

\* C35: the filter never removes a known-duplicate version altogether: when
\* the input has a line of that version which the nightly, pointer and
\* unnumbered-beta rules leave alone, the tracked output has a line naming
\* that version.
C35_DuplicateVersionSurvives ==
    pc = "filtered" =>
        \A v \in versions_to_deduplicate :
            (\E i \in 1..Len(all_manifest_paths) :
                /\ PathVersion(all_manifest_paths[i]) = v
                /\ ~DroppedByOtherRule(all_manifest_paths[i]))
            => \E j \in 1..Len(filtered_paths) : Contains(filtered_paths[j], v)

\* the nightly release of the batch has been inserted in this run
NightlyInserted ==
    /\ nightly_obj(unique_versions_to_insert) # NoRelease
    /\ nightly_obj(unique_versions_to_insert).version \notin hist.raised
    /\ nightly_obj(unique_versions_to_insert).version \in StoredVersions(conn)

\* C36: when the nightly pointer was parsed in the batch and its release
\* inserted, the flag update of the same run, which fetches and parses the
\* pointer again, uses the version of that release, and the store about to be
\* committed has latest_nightly on the release inserted in this run.
C36_NightlyFlagOnInserted ==
    pc = "commit" /\ NightlyInserted =>
        /\ hist.pointers.nightly = nightly_obj(unique_versions_to_insert).version
        /\ FlaggedNightly(conn) = {nightly_obj(unique_versions_to_insert).version}

====
